---- MODULE Spec2Model ----
(***************************************************************************)
(* Payroll cycle processing engine of server/src/routes/app.ts: the cycle  *)
(* state machine (create, submit, approve, reject, process), the age-out   *)
(* sweep and the backfill of GET /payslips, the per-employee calculation   *)
(* and the payroll_items upsert.  The database tables are the state; each  *)
(* request handler is one action (requests run one at a time in Spec).     *)
(* Amounts are in hundredths of the currency unit; a division rounds down. *)
(***************************************************************************)
EXTENDS Integers, Sequences, FiniteSets, TLC

VARIABLES now, cycles, items, comps, response, itemWrites, rowsRead, calc, procs

\* the leave_requests and attendance_records tables
VARIABLES leaves, attendance

vars == <<now, cycles, items, comps, response, itemWrites, rowsRead, calc, procs,
          leaves, attendance>>

(***************************************************************************)
(* Bounds of the model                                                     *)
(***************************************************************************)
MaxTicks == 1
MaxCycles == 2
MaxComps == 1
MaxLop == 32
MaxProcs == 2
MaxLeaves == 2

(***************************************************************************)
(* Calendar                                                                *)
(***************************************************************************)
StartYear == 2024
StartMonth == 12

Date(y, m, d) == [year |-> y, month |-> m, day |-> d]

DateLE(a, b) ==
  \/ a.year < b.year
  \/ a.year = b.year /\ a.month < b.month
  \/ a.year = b.year /\ a.month = b.month /\ a.day <= b.day

IsLeap(y) == (y % 4 = 0 /\ y % 100 # 0) \/ y % 400 = 0

DaysInMonth(y, m) ==
  IF m = 2 THEN (IF IsLeap(y) THEN 29 ELSE 28)
  ELSE IF m \in {4, 6, 9, 11} THEN 30 ELSE 31

MonthEnd(y, m) == Date(y, m, DaysInMonth(y, m))

IsPast(y, m, cy, cm) == y < cy \/ (y = cy /\ m < cm)

NextMonth(y, m) == IF m = 12 THEN [year |-> y + 1, month |-> 1]
                   ELSE [year |-> y, month |-> m + 1]

MonthsSinceStart(n) == (n.year - StartYear) * 12 + (n.month - StartMonth)

(***************************************************************************)
(* Tenants, employees, settings, leave and attendance (fixed tables)       *)
(***************************************************************************)
Tenants == {"A", "B"}

NoEmp == "none"

Employees ==
  [ e1 |-> [tenant |-> "A", status |-> "active", date_of_joining |-> Date(2024, 11, 15)],
    e2 |-> [tenant |-> "A", status |-> "active", date_of_joining |-> Date(2024, 12, 10)],
    e3 |-> [tenant |-> "B", status |-> "active", date_of_joining |-> Date(2024, 12, 1)],
    e4 |-> [tenant |-> "A", status |-> "inactive", date_of_joining |-> Date(2024, 11, 20)],
    e5 |-> [tenant |-> "B", status |-> "terminated", date_of_joining |-> Date(2024, 11, 5)] ]

EmpIds == DOMAIN Employees

EmpsOf(t) == {e \in EmpIds : Employees[e].tenant = t}

\* the caller of a request: an employee of the tenant (by e-mail) or a user
\* without an employee row
Callers(t) == {IF t = "A" THEN "e1" ELSE "e3", NoEmp}

DefaultSettings ==
  [pf_rate |-> 12, esi_rate |-> 325, pt_rate |-> 20000, tds_threshold |-> 25000000,
   basic_salary_percentage |-> 40, hra_percentage |-> 40,
   special_allowance_percentage |-> 20]

payroll_settings ==
  [t \in Tenants |->
     IF t = "B"
     THEN <<[pf_rate |-> 10, esi_rate |-> 325, pt_rate |-> 15000,
             tds_threshold |-> 20000000, basic_salary_percentage |-> 50,
             hra_percentage |-> 30, special_allowance_percentage |-> 20]>>
     ELSE <<>>]

SettingsOf(t) == IF Len(payroll_settings[t]) > 0 THEN payroll_settings[t][1]
                 ELSE DefaultSettings

leave_requests ==
  { [tenant |-> "A", employee |-> "e1", leave_type |-> "loss_of_pay",
     status |-> "approved", start_date |-> Date(2024, 11, 28),
     end_date |-> Date(2024, 12, 2), days |-> 5],
    [tenant |-> "A", employee |-> "e2", leave_type |-> "sick",
     status |-> "approved", start_date |-> Date(2024, 12, 16),
     end_date |-> Date(2024, 12, 17), days |-> 2],
    [tenant |-> "B", employee |-> "e3", leave_type |-> "loss_of_pay",
     status |-> "pending", start_date |-> Date(2024, 12, 4),
     end_date |-> Date(2024, 12, 5), days |-> 2] }

attendance_records ==
  { [tenant |-> "A", employee |-> "e1", attendance_date |-> Date(2024, 12, 5),
     is_lop |-> TRUE],
    [tenant |-> "B", employee |-> "e3", attendance_date |-> Date(2024, 12, 7),
     is_lop |-> TRUE],
    [tenant |-> "B", employee |-> "e3", attendance_date |-> Date(2024, 12, 8),
     is_lop |-> FALSE] }

(***************************************************************************)
(* Sums over finite sets                                                   *)
(***************************************************************************)
RECURSIVE SumDays(_)
SumDays(S) ==
  IF S = {} THEN 0
  ELSE LET x == CHOOSE r \in S : TRUE
       IN (IF x.leave_type = "loss_of_pay" THEN x.days ELSE 0) + SumDays(S \ {x})

RECURSIVE SumGross(_)
SumGross(S) ==
  IF S = {} THEN 0
  ELSE LET x == CHOOSE r \in S : TRUE IN x.gross_salary + SumGross(S \ {x})

Max(a, b) == IF a >= b THEN a ELSE b

(***************************************************************************)
(* calculateLopAndPaidDays                                                 *)
(***************************************************************************)
\* variant: only a request that starts in the month is selected
LeaveCountedStartsInMonth(r, t, e, y, m) ==
  /\ r.tenant = t
  /\ r.employee = e
  /\ r.status = "approved"
  /\ r.start_date.year = y /\ r.start_date.month = m

LeaveCounted(r, t, e, y, m) ==
  /\ r.tenant = t
  /\ r.employee = e
  /\ r.status = "approved"
  /\ \/ (r.start_date.year = y /\ r.start_date.month = m)
     \/ (r.end_date.year = y /\ r.end_date.month = m)
     \/ (DateLE(r.start_date, Date(y, m, 1)) /\ DateLE(Date(y, m, 1), r.end_date))

AttendanceCounted(r, t, e, y, m) ==
  /\ r.tenant = t
  /\ r.employee = e
  /\ r.is_lop
  /\ r.attendance_date.year = y
  /\ r.attendance_date.month = m

\* variant: paid days are not clamped at zero
LopAndPaidDaysUnclamped(totalWorkingDays, lopDays) ==
  [lopDays |-> lopDays,
   paidDays |-> totalWorkingDays - lopDays,
   totalWorkingDays |-> totalWorkingDays]

\* paidDays = Math.max(0, totalWorkingDays - lopDays)
LopAndPaidDays(totalWorkingDays, lopDays) ==
  [lopDays |-> lopDays,
   paidDays |-> Max(0, totalWorkingDays - lopDays),
   totalWorkingDays |-> totalWorkingDays]

\* variant: the leave days counted for a month are at most the days of the month
calculateLopAndPaidDaysWithinMonth(t, e, m, y) ==
  LET totalWorkingDays == DaysInMonth(y, m)
      leaveLopDays == SumDays({r \in leaves : LeaveCounted(r, t, e, y, m)})
      attendanceLopDays ==
        Cardinality({r \in attendance : AttendanceCounted(r, t, e, y, m)})
      lopDays == (IF leaveLopDays > totalWorkingDays THEN totalWorkingDays
                  ELSE leaveLopDays) + attendanceLopDays
  IN LopAndPaidDays(totalWorkingDays, lopDays)

calculateLopAndPaidDays(t, e, m, y) ==
  LET totalWorkingDays == DaysInMonth(y, m)
      leaveLopDays == SumDays({r \in leaves : LeaveCounted(r, t, e, y, m)})
      attendanceLopDays ==
        Cardinality({r \in attendance : AttendanceCounted(r, t, e, y, m)})
      lopDays == leaveLopDays + attendanceLopDays
  IN LopAndPaidDays(totalWorkingDays, lopDays)

(***************************************************************************)
(* Compensation resolution and the per-employee calculation                *)
(***************************************************************************)
CompCandidates(cset, t, e, asOf) ==
  {c \in cset : c.employee = e /\ c.tenant = t /\ DateLE(c.effective_from, asOf)}

\* variant: the earliest record of the employee, whatever the as-of date
ResolveCompEarliest(cset, t, e, asOf) ==
  LET cand == {c \in cset : c.employee = e /\ c.tenant = t}
  IN IF cand = {} THEN <<>>
     ELSE <<CHOOSE c \in cand : \A d \in cand : DateLE(c.effective_from, d.effective_from)>>

ResolveComp(cset, t, e, asOf) ==
  LET cand == CompCandidates(cset, t, e, asOf)
  IN IF cand = {} THEN <<>>
     ELSE <<CHOOSE c \in cand : \A d \in cand : DateLE(d.effective_from, c.effective_from)>>

Pct(settings, field, dflt) ==
  IF field \in DOMAIN settings /\ settings[field] # 0 THEN settings[field] ELSE dflt

\* basic, hra, special allowance and gross of a compensation row; with the
\* CTC fallback when the monthly components are all zero
Components(c, settings, fallback) ==
  LET g == c.basic_salary + c.hra + c.special_allowance + c.da + c.lta + c.bonus
  IN IF fallback /\ g = 0 /\ c.ctc # 0
     THEN LET monthlyCtc == c.ctc \div 12
              b == (monthlyCtc * Pct(settings, "basic_salary_percentage", 40)) \div 100
              h == (monthlyCtc * Pct(settings, "hra_percentage", 40)) \div 100
              s == (monthlyCtc * Pct(settings, "special_allowance_percentage", 20)) \div 100
          IN [basic |-> b, hra |-> h, sa |-> s, gross |-> b + h + s]
     ELSE [basic |-> c.basic_salary, hra |-> c.hra, sa |-> c.special_allowance,
           gross |-> g]

PtDeduction(settings) == IF settings.pt_rate # 0 THEN settings.pt_rate ELSE 20000

\* variant: the limit itself is excluded
EsiDeductionBelowLimit(gross) == IF gross < 2100000 THEN (gross * 75) \div 10000 ELSE 0

EsiDeduction(gross) == IF gross <= 2100000 THEN (gross * 75) \div 10000 ELSE 0

TdsDeduction(gross, settings) ==
  LET annual == gross * 12
  IN IF annual > settings.tds_threshold
     THEN (((annual - settings.tds_threshold) * 5) \div 100) \div 12
     ELSE 0

\* variant: the professional tax is left out of the net salary
NetSalarySkew(gross, pf, esi, pt, tds) == gross - (pf + esi + tds)

\* deductions = pf + esi + pt + tds; net = adjustedGross - deductions
NetSalary(gross, pf, esi, pt, tds) == gross - (pf + esi + pt + tds)

\* the payroll_items row computed from components and LOP / paid days
ComputeItem(t, cid, e, k, d, settings) ==
  LET adjustedGross == (k.gross * d.paidDays) \div d.totalWorkingDays
      adjustedBasic == (k.basic * d.paidDays) \div d.totalWorkingDays
      adjustedHra == (k.hra * d.paidDays) \div d.totalWorkingDays
      adjustedSa == (k.sa * d.paidDays) \div d.totalWorkingDays
      pf == (adjustedBasic * settings.pf_rate) \div 100
      esi == EsiDeduction(adjustedGross)
      pt == PtDeduction(settings)
      tds == TdsDeduction(adjustedGross, settings)
      deductions == pf + esi + pt + tds
  IN [tenant |-> t, cycle |-> cid, employee |-> e,
      gross_salary |-> adjustedGross, deductions |-> deductions,
      net_salary |-> NetSalary(adjustedGross, pf, esi, pt, tds),
      basic_salary |-> adjustedBasic, hra |-> adjustedHra,
      special_allowance |-> adjustedSa,
      pf_deduction |-> pf, esi_deduction |-> esi, tds_deduction |-> tds,
      pt_deduction |-> pt,
      lop_days |-> d.lopDays, paid_days |-> d.paidDays,
      total_working_days |-> d.totalWorkingDays]

\* INSERT INTO payroll_items ... ON CONFLICT (payroll_cycle_id, employee_id) DO UPDATE
UpsertItem(its, it) ==
  LET old == {i \in its : i.cycle = it.cycle /\ i.employee = it.employee}
  IN IF old = {} THEN its \cup {it}
     ELSE (its \ old) \cup {[it EXCEPT !.tenant = o.tenant] : o \in old}

ItemsOf(its, t, cid) == {i \in its : i.cycle = cid /\ i.tenant = t}

\* variant: every employee of the tenant, whatever the status and joining date
EligibleEmployeesAll(t, y, m) == EmpsOf(t)

\* active employees of the tenant who joined on or before the month end
EligibleEmployees(t, y, m) ==
  {e \in EmpsOf(t) : Employees[e].status = "active"
                     /\ DateLE(Employees[e].date_of_joining, MonthEnd(y, m))}

RECURSIVE UpsertAll(_, _)
UpsertAll(its, S) ==
  IF S = {} THEN its
  ELSE LET x == CHOOSE i \in S : TRUE IN UpsertAll(UpsertItem(its, x), S \ {x})

(***************************************************************************)
(* payroll_cycles rows and the checks of the state machine                 *)
(***************************************************************************)
\* variant: the row is inserted in pending_approval
NewCyclePending(t, y, m, cnt, amt) ==
  [tenant |-> t, year |-> y, month |-> m, status |-> "pending_approval",
   total_employees |-> cnt, total_amount |-> amt]

NewCycle(t, y, m, cnt, amt) ==
  [tenant |-> t, year |-> y, month |-> m, status |-> "draft",
   total_employees |-> cnt, total_amount |-> amt]

\* SELECT * FROM payroll_cycles WHERE id = $1 AND tenant_id = $2
CycleRows(cs, id, t) == {i \in DOMAIN cs : i = id /\ cs[i].tenant = t}

\* rows of a (tenant, month, year) key
KeyRows(cs, t, y, m) ==
  {i \in DOMAIN cs : cs[i].tenant = t /\ cs[i].year = y /\ cs[i].month = m}

\* the unique index on payroll_cycles (tenant_id, month, year)
\* variant: no unique index, every INSERT goes through
UniqueViolationOff(cs, t, y, m) == FALSE

UniqueViolation(cs, t, y, m) == KeyRows(cs, t, y, m) # {}

\* the id the database generates for a new row: distinct from every id in use
NewId(cs, t, y, m) == <<t, y, m, Cardinality(KeyRows(cs, t, y, m))>>

InsertCycle(cs, id, row) == cs @@ (id :> row)

NoCycles == [i \in {} |-> 0]

SubmitAllowed(status) == status = "draft"

\* variant: approval is also accepted on a draft cycle
ApproveAllowedLoose(status) == status \in {"pending_approval", "draft"}

ApproveAllowed(status) == status = "pending_approval"

\* variant: a completed cycle can be returned to draft
RejectAllowedLoose(status) == status \in {"pending_approval", "completed"}

RejectAllowed(status) == status = "pending_approval"

\* variant: processing is also accepted on a draft cycle
ProcessAllowedLoose(status) == status \in {"approved", "draft"}

ProcessAllowed(status) == status = "approved"

\* variant: the item-count check of submit is missing
NoItemsOff(count) == FALSE

\* itemsCount === 0
NoItems(count) == count = 0

LockedStatus(status) == status \in {"approved", "processing", "completed"}

\* variant: without the condition on the cycle's month
SweepAnyMonth(cs, t, n) ==
  [i \in DOMAIN cs |->
     IF /\ cs[i].tenant = t
        /\ cs[i].status # "completed"
        /\ cs[i].status # "failed"
     THEN [cs[i] EXCEPT !.status = "completed"]
     ELSE cs[i]]

\* the age-out UPDATE of GET /payroll-cycles and GET /payslips
Sweep(cs, t, n) ==
  [i \in DOMAIN cs |->
     IF /\ cs[i].tenant = t
        /\ cs[i].status # "completed"
        /\ cs[i].status # "failed"
        /\ IsPast(cs[i].year, cs[i].month, n.year, n.month)
     THEN [cs[i] EXCEPT !.status = "completed"]
     ELSE cs[i]]

Res(code, cs, its, w, rd) ==
  [code |-> code, cycles |-> cs, items |-> its, writes |-> w, reads |-> rd]

\* the status of the owning cycle at each payroll_items write of a request
WriteLog(cs, cid, emps) == {cs[cid].status : e \in emps}

(***************************************************************************)
(* POST /payroll-cycles/:cycleId/submit, /approve, /reject                  *)
(***************************************************************************)
SubmitHandler(t, id) ==
  LET rows == CycleRows(cycles, id, t)
      its == ItemsOf(items, t, id)
  IN IF rows = {} THEN Res("not_found", cycles, items, {}, {})
     ELSE IF ~SubmitAllowed(cycles[id].status)
          THEN Res("illegal_transition", cycles, items, {}, {t})
     ELSE IF NoItems(Cardinality(its))
          THEN Res("no_items", cycles, items, {}, {t})
     ELSE Res("ok", [cycles EXCEPT ![id].status = "pending_approval"], items, {},
              {t} \cup {i.tenant : i \in its})

ApproveHandler(t, id) ==
  LET rows == CycleRows(cycles, id, t)
  IN IF rows = {} THEN Res("not_found", cycles, items, {}, {})
     ELSE IF ~ApproveAllowed(cycles[id].status)
          THEN Res("illegal_transition", cycles, items, {}, {t})
     ELSE Res("ok", [cycles EXCEPT ![id].status = "approved"], items, {}, {t})

\* variant: the rejection also resets the totals of the cycle
RejectHandlerResetsTotals(t, id) ==
  LET rows == CycleRows(cycles, id, t)
  IN IF rows = {} THEN Res("not_found", cycles, items, {}, {})
     ELSE IF ~RejectAllowed(cycles[id].status)
          THEN Res("illegal_transition", cycles, items, {}, {t})
     ELSE Res("ok", [cycles EXCEPT ![id].status = "draft",
                                   ![id].total_employees = 0,
                                   ![id].total_amount = 0], items, {}, {t})

RejectHandler(t, id) ==
  LET rows == CycleRows(cycles, id, t)
  IN IF rows = {} THEN Res("not_found", cycles, items, {}, {})
     ELSE IF ~RejectAllowed(cycles[id].status)
          THEN Res("illegal_transition", cycles, items, {}, {t})
     ELSE Res("ok", [cycles EXCEPT ![id].status = "draft"], items, {}, {t})

(***************************************************************************)
(* POST /payroll-cycles/:cycleId/process                                    *)
(***************************************************************************)
\* request bodies: no payrollItems, or a payrollItems array
EditedBodies ==
  { <<>>,
    <<[employee_id |-> "e1", basic_salary |-> 2000000, hra |-> 500000,
       special_allowance |-> 0, da |-> 0, lta |-> 0, bonus |-> 0,
       days_given |-> FALSE, lop_days |-> 0, paid_days |-> 0,
       total_working_days |-> 0]>>,
    <<[employee_id |-> "e4", basic_salary |-> 600000, hra |-> 200000,
       special_allowance |-> 200000, da |-> 0, lta |-> 0, bonus |-> 0,
       days_given |-> TRUE, lop_days |-> 0, paid_days |-> 30,
       total_working_days |-> 30]>> }

\* the payroll_items row written for one edited item of the request body
EditedItem(t, id, c, x, settings) ==
  LET d == IF x.days_given
           THEN [lopDays |-> x.lop_days, paidDays |-> x.paid_days,
                 totalWorkingDays |-> x.total_working_days]
           ELSE calculateLopAndPaidDays(t, x.employee_id, c.month, c.year)
      editedGross == x.basic_salary + x.hra + x.special_allowance + x.da + x.lta + x.bonus
      pf == (x.basic_salary * settings.pf_rate) \div 100
      esi == EsiDeduction(editedGross)
      pt == PtDeduction(settings)
      tds == TdsDeduction(editedGross, settings)
      ded == pf + esi + pt + tds
  IN [tenant |-> t, cycle |-> id, employee |-> x.employee_id,
      gross_salary |-> editedGross, deductions |-> ded,
      net_salary |-> editedGross - ded,
      basic_salary |-> x.basic_salary, hra |-> x.hra,
      special_allowance |-> x.special_allowance,
      pf_deduction |-> pf, esi_deduction |-> esi, tds_deduction |-> tds,
      pt_deduction |-> pt,
      lop_days |-> d.lopDays, paid_days |-> d.paidDays,
      total_working_days |-> d.totalWorkingDays]

RECURSIVE ApplyEdits(_, _, _)
ApplyEdits(its, rowsToWrite, k) ==
  IF k > Len(rowsToWrite) THEN its
  ELSE ApplyEdits(UpsertItem(its, rowsToWrite[k]), rowsToWrite, k + 1)

RECURSIVE SeqGross(_, _)
SeqGross(rowsToWrite, k) ==
  IF k > Len(rowsToWrite) THEN 0
  ELSE rowsToWrite[k].gross_salary + SeqGross(rowsToWrite, k + 1)

\* variant: the status changes and the totals stay as they were
MarkProcessingStale(cs, id, cnt, amt) == [cs EXCEPT ![id].status = "processing"]

\* status := processing with the given totals
MarkProcessing(cs, id, cnt, amt) ==
  [cs EXCEPT ![id].status = "processing",
             ![id].total_employees = cnt,
             ![id].total_amount = amt]

\* variant: the totals are not re-read from the items
ProcessAsIsNoTotals(t, id, existing) ==
  Res("ok", MarkProcessing(cycles, id, 0, 0), items, {},
      {t} \cup {i.tenant : i \in existing})

\* approved cycle that already has items: totals are re-read, items untouched
ProcessAsIs(t, id, existing) ==
  Res("ok", MarkProcessing(cycles, id, Cardinality(existing), SumGross(existing)),
      items, {}, {t} \cup {i.tenant : i \in existing})

\* variant: the edited items are written without the lock checks
ProcessEditedUnlocked(t, id, edited) ==
  LET c == cycles[id]
      settings == SettingsOf(t)
      rowsToWrite == [k \in 1..Len(edited) |-> EditedItem(t, id, c, edited[k], settings)]
  IN Res("ok",
         MarkProcessing(cycles, id, Len(edited), SeqGross(rowsToWrite, 1)),
         ApplyEdits(items, rowsToWrite, 1),
         WriteLog(cycles, id, {edited[k].employee_id : k \in 1..Len(edited)}),
         {t})

\* the edited-items branch
ProcessEdited(t, id, edited) ==
  LET c == cycles[id]
      settings == SettingsOf(t)
      existing == ItemsOf(items, t, id)
      rowsToWrite == [k \in 1..Len(edited) |-> EditedItem(t, id, c, edited[k], settings)]
  IN IF c.status = "approved" /\ existing # {}
     THEN ProcessAsIs(t, id, existing)
     ELSE IF LockedStatus(c.status)
          THEN Res("locked", cycles, items, {}, {t})
     ELSE Res("ok",
              MarkProcessing(cycles, id, Len(edited), SeqGross(rowsToWrite, 1)),
              ApplyEdits(items, rowsToWrite, 1),
              WriteLog(cycles, id, {edited[k].employee_id : k \in 1..Len(edited)}),
              {t})

\* the fresh-calculation branch
ProcessFresh(t, id) ==
  LET c == cycles[id]
      settings == SettingsOf(t)
      existing == ItemsOf(items, t, id)
      withComp == {e \in EligibleEmployees(t, c.year, c.month) :
                     ResolveComp(comps, t, e, MonthEnd(c.year, c.month)) # <<>>}
      written == IF LockedStatus(c.status) THEN {} ELSE withComp
      row(e) == ComputeItem(t, id, e,
                  Components(ResolveComp(comps, t, e, MonthEnd(c.year, c.month))[1],
                             settings, FALSE),
                  calculateLopAndPaidDays(t, e, c.month, c.year), settings)
      newRows == {row(e) : e \in written}
  IN IF c.status = "approved" /\ Cardinality(existing) > 0
     THEN ProcessAsIs(t, id, existing)
     ELSE Res("ok",
              MarkProcessing(cycles, id, Cardinality(written), SumGross(newRows)),
              UpsertAll(items, newRows),
              WriteLog(cycles, id, written),
              {t})

ProcessHandler(t, id, edited) ==
  LET rows == CycleRows(cycles, id, t)
  IN IF rows = {} THEN Res("not_found", cycles, items, {}, {})
     ELSE IF ~ProcessAllowed(cycles[id].status)
          THEN Res("illegal_transition", cycles, items, {}, {t})
     ELSE IF Len(edited) > 0 THEN ProcessEdited(t, id, edited)
     ELSE ProcessFresh(t, id)

(***************************************************************************)
(* Storage failures: a query of the orchestrator loop may throw.  stage is *)
(* "none" (no failure), "ensure" (the cycle INSERT / SELECT of that month  *)
(* throws) or "process" (a query of the employee loop or the final UPDATE  *)
(* throws after the upserts of the employees in done).                     *)
(***************************************************************************)
NoFail == [year |-> 0, month |-> 0, stage |-> "none", done |-> {}]

RECURSIVE AddMonths(_, _)
AddMonths(p, k) == IF k = 0 THEN p ELSE AddMonths(NextMonth(p.year, p.month), k - 1)

FirstPeriod == [year |-> 2024, month |-> 11]

PastPeriods == {AddMonths(FirstPeriod, k) : k \in 0..MaxTicks}

\* months of the creation requests (tenant A creates cycles explicitly, tenant
\* B's are created by the backfill)
CreatePeriods(t) ==
  IF t = "A" THEN {AddMonths(FirstPeriod, k) : k \in 0..MaxTicks}
  ELSE {}

\* the upserts completed before the failure: none, the first employee's, all
DoneSets(t) == {{}, {"e1"}, EmpsOf(t)}

\* failures of a backfill pass: in one of the months it visits
BackfillFailures(t, caller, n) ==
  IF t # "A" \/ caller = NoEmp THEN {NoFail}
  ELSE LET visited == {p \in PastPeriods : IsPast(p.year, p.month, n.year, n.month)}
       IN {NoFail}
          \cup {[year |-> p.year, month |-> p.month, stage |-> "ensure", done |-> {}] :
                  p \in visited}
          \cup {[year |-> p.year, month |-> p.month, stage |-> "process", done |-> S] :
                  p \in visited, S \in DoneSets(t)}

\* failures of the orchestrator loop of a creation for a past month
CreateFailures(t, p, n) ==
  IF t # "A" \/ ~IsPast(p.year, p.month, n.year, n.month) THEN {NoFail}
  ELSE
  {NoFail}
  \cup {[year |-> 0, month |-> 0, stage |-> "process", done |-> S] : S \in DoneSets(t)}

(***************************************************************************)
(* GET /payslips: age-out sweep, then the backfill over the past months    *)
(***************************************************************************)
\* variant: only the employees handled in this run are counted
BackfillCountNewOnly(existing, written) == Cardinality(written)

\* processedCount: starts at the number of existing items, +1 per upsert
BackfillCount(existing, written) == Cardinality(existing) + Cardinality(written)

\* variant: only the gross of the items written in this run is summed
BackfillAmountNewOnly(existing, newRows) == SumGross(newRows)

\* totalGross: starts at the sum over the existing items, + adjustedGross per upsert
BackfillAmount(existing, newRows) == SumGross(existing) + SumGross(newRows)

Acc(cs, its, w) == [cycles |-> cs, items |-> its, writes |-> w]

\* variant: no employee is skipped
EmployeesWithItemsNone(existing) == {}

\* employeesWithItems: the employees of the existing items of the cycle
EmployeesWithItems(existing) == {i.employee : i \in existing}

\* one iteration of the month loop
BackfillMonth(t, y, m, acc, fail, settings) ==
  LET failingHere == fail.stage # "none" /\ fail.year = y /\ fail.month = m
      conflict == UniqueViolation(acc.cycles, t, y, m)
      cid == IF conflict
             THEN CHOOSE i \in KeyRows(acc.cycles, t, y, m) :
                    \A j \in KeyRows(acc.cycles, t, y, m) : i[4] <= j[4]
             ELSE NewId(acc.cycles, t, y, m)
      cs1 == IF conflict THEN acc.cycles
             ELSE InsertCycle(acc.cycles, cid, NewCycle(t, y, m, 0, 0))
      existing == ItemsOf(acc.items, t, cid)
      withItems == EmployeesWithItems(existing)
      comp(e) == ResolveComp(comps, t, e, MonthEnd(y, m))
      candidates == {e \in EligibleEmployees(t, y, m) \ withItems :
                       /\ comp(e) # <<>>
                       /\ Components(comp(e)[1], settings, TRUE).gross # 0}
      written == IF failingHere THEN candidates \cap fail.done ELSE candidates
      row(e) == ComputeItem(t, cid, e, Components(comp(e)[1], settings, TRUE),
                            calculateLopAndPaidDays(t, e, m, y), settings)
      newRows == {row(e) : e \in written}
      cs2 == IF failingHere THEN cs1
             ELSE [cs1 EXCEPT ![cid].status = "completed",
                              ![cid].total_employees = BackfillCount(existing, written),
                              ![cid].total_amount = BackfillAmount(existing, newRows)]
  IN IF failingHere /\ fail.stage = "ensure" THEN acc
     ELSE Acc(cs2, UpsertAll(acc.items, newRows),
              acc.writes \cup WriteLog(cs1, cid, written))

RECURSIVE BackfillLoop(_, _, _, _, _, _, _, _)
BackfillLoop(t, y, m, lastYear, lastMonth, acc, fail, settings) ==
  IF y > lastYear \/ (y = lastYear /\ m > lastMonth) THEN acc
  ELSE LET nx == NextMonth(y, m)
       IN IF y = now.year /\ m = now.month
          THEN BackfillLoop(t, nx.year, nx.month, lastYear, lastMonth, acc, fail, settings)
          ELSE BackfillLoop(t, nx.year, nx.month, lastYear, lastMonth,
                            BackfillMonth(t, y, m, acc, fail, settings), fail, settings)

\* variant: MAX in place of MIN
EarliestJoinMax(t) ==
  LET ds == {Employees[e].date_of_joining :
               e \in {x \in EmpsOf(t) : Employees[x].status # "terminated"}}
  IN IF ds = {} THEN <<>>
     ELSE <<CHOOSE d \in ds : \A x \in ds : DateLE(x, d)>>

\* MIN(date_of_joining) over the tenant's employees that are not terminated
EarliestJoin(t) ==
  LET ds == {Employees[e].date_of_joining :
               e \in {x \in EmpsOf(t) : Employees[x].status # "terminated"}}
  IN IF ds = {} THEN <<>>
     ELSE <<CHOOSE d \in ds : \A x \in ds : DateLE(d, x)>>

\* variant: the final query without the condition on the cycle's status
PayslipsAnyStatus(cs, its, t, caller) ==
  {i \in its : i.employee = caller /\ i.tenant = t /\ i.cycle \in DOMAIN cs}

\* the final query: the caller's items joined with their cycles, of the
\* cycles in approved, completed or processing
Payslips(cs, its, t, caller) ==
  {i \in its : /\ i.employee = caller
               /\ i.tenant = t
               /\ i.cycle \in DOMAIN cs
               /\ cs[i.cycle].status \in {"approved", "completed", "processing"}}

\* the request applied to the given payroll_cycles and payroll_items tables
GetPayslipsOn(cs, its, t, caller, fail) ==
  LET swept == Sweep(cs, t, now)
      lastMonth == IF now.month = 1 THEN 12 ELSE now.month - 1
      lastYear == IF now.month = 1 THEN now.year - 1 ELSE now.year
      ej == EarliestJoin(t)
      acc == IF ej = <<>> THEN Acc(swept, its, {})
             ELSE BackfillLoop(t, ej[1].year, ej[1].month, lastYear, lastMonth,
                               Acc(swept, its, {}), fail, SettingsOf(t))
  IN IF caller = NoEmp THEN Res("ok", swept, its, {}, {}) @@ [payslips |-> {}]
     ELSE Res("ok", acc.cycles, acc.items, acc.writes,
              {i.tenant : i \in Payslips(acc.cycles, acc.items, t, caller)})
          @@ [payslips |-> Payslips(acc.cycles, acc.items, t, caller)]

GetPayslipsHandler(t, caller, fail) == GetPayslipsOn(cycles, items, t, caller, fail)

(***************************************************************************)
(* GET /payroll-cycles: age-out sweep and the total_employees correction   *)
(***************************************************************************)
CountItems(its, t, id) == Cardinality({i.employee : i \in ItemsOf(its, t, id)})

GetPayrollCyclesHandler(t) ==
  LET swept == Sweep(cycles, t, now)
      \* total_employees of the listed row: COALESCE(count of items, column)
      listed(i) == CountItems(items, t, i)
      fixed == [i \in DOMAIN swept |->
                  IF /\ swept[i].tenant = t
                     /\ CountItems(items, t, i) # listed(i)
                     /\ CountItems(items, t, i) > 0
                  THEN [swept[i] EXCEPT !.total_employees = CountItems(items, t, i)]
                  ELSE swept[i]]
  IN Res("ok", fixed, items, {}, {swept[i].tenant : i \in {j \in DOMAIN swept : swept[j].tenant = t}})

(***************************************************************************)
(* POST /payroll-cycles                                                     *)
(***************************************************************************)
CreateBodies ==
  { [employeeCount |-> 2, totalCompensation |-> 4400000] }

CreateHandler(t, y, m, body, fail) ==
  LET cid == NewId(cycles, t, y, m)
      cs1 == InsertCycle(cycles, cid,
                         NewCycle(t, y, m, body.employeeCount, body.totalCompensation))
      settings == SettingsOf(t)
      comp(e) == ResolveComp(comps, t, e, MonthEnd(y, m))
      withComp == {e \in EligibleEmployees(t, y, m) : comp(e) # <<>>}
      failing == fail.stage = "process"
      written == IF failing THEN withComp \cap fail.done ELSE withComp
      row(e) == ComputeItem(t, cid, e, Components(comp(e)[1], settings, TRUE),
                            calculateLopAndPaidDays(t, e, m, y), settings)
      newRows == {row(e) : e \in written}
  IN IF m = 0 \/ y = 0 THEN Res("bad_request", cycles, items, {}, {})
     ELSE IF UniqueViolation(cycles, t, y, m) THEN Res("conflict", cycles, items, {}, {})
     ELSE IF ~IsPast(y, m, now.year, now.month) THEN Res("ok", cs1, items, {}, {t})
     ELSE IF failing
          THEN Res("error", cs1, UpsertAll(items, newRows), WriteLog(cs1, cid, written), {t})
     ELSE Res("ok",
              [cs1 EXCEPT ![cid].status = "completed",
                          ![cid].total_employees = Cardinality(written),
                          ![cid].total_amount = SumGross(newRows)],
              UpsertAll(items, newRows), WriteLog(cs1, cid, written), {t})

(***************************************************************************)
(* GET /payslips/:payslipId/pdf                                             *)
(***************************************************************************)
ItemId(i) == <<i.cycle, i.employee>>

NoItemId == <<<<"none", 0, 0, 0>>, NoEmp>>

\* SELECT employee_id, tenant_id FROM payroll_items WHERE id = $1
PayslipCheck(its, pid) == {i \in its : ItemId(i) = pid}

GetPayslipPdfHandler(t, caller, pid) ==
  LET chk == PayslipCheck(items, pid)
      rd == {i.tenant : i \in chk}
  IN IF chk = {} THEN Res("not_found", cycles, items, {}, rd)
     ELSE IF \E i \in chk : i.tenant # t THEN Res("access_denied", cycles, items, {}, rd)
     ELSE IF caller # NoEmp /\ \E i \in chk : i.employee # caller
          THEN Res("not_own", cycles, items, {}, rd)
     ELSE Res("ok", cycles, items, {}, rd)

(***************************************************************************)
(* compensation_structures rows                                            *)
(***************************************************************************)
InitComps ==
  { [tenant |-> "A", employee |-> "e1", effective_from |-> Date(2024, 11, 1),
     ctc |-> 28800000, basic_salary |-> 1500000, hra |-> 600000,
     special_allowance |-> 300000, da |-> 0, lta |-> 0, bonus |-> 0],
    [tenant |-> "A", employee |-> "e2", effective_from |-> Date(2024, 12, 1),
     ctc |-> 24000000, basic_salary |-> 0, hra |-> 0,
     special_allowance |-> 0, da |-> 0, lta |-> 0, bonus |-> 0],
    [tenant |-> "A", employee |-> "e4", effective_from |-> Date(2024, 11, 1),
     ctc |-> 12000000, basic_salary |-> 600000, hra |-> 200000,
     special_allowance |-> 200000, da |-> 0, lta |-> 0, bonus |-> 0],
    [tenant |-> "B", employee |-> "e3", effective_from |-> Date(2024, 12, 1),
     ctc |-> 20400000, basic_salary |-> 1000000, hra |-> 400000,
     special_allowance |-> 200000, da |-> 100000, lta |-> 0, bonus |-> 0] }

\* the rows on hand when the revisions start: employee e2 has no record yet
CompInit == {c \in InitComps : c.employee # "e2"}

(***************************************************************************)
(* State machine                                                           *)
(***************************************************************************)
\* the request handled last and the response sent for it
Response(op, code) == [op |-> op, code |-> code]

\* no salary calculation in progress
NoCalc == <<>>

\* no request in progress
NoProcs == <<>>

FailedId == <<"A", 2024, 11, 0>>

\* a cycle left in failed by the external remediation path
FailedCycle ==
  [tenant |-> "A", year |-> 2024, month |-> 11, status |-> "failed",
   total_employees |-> 0, total_amount |-> 0]

Init ==
  /\ now = [year |-> StartYear, month |-> StartMonth]
  /\ cycles \in {NoCycles, InsertCycle(NoCycles, FailedId, FailedCycle)}
  /\ items = {}
  /\ comps = InitComps
  /\ response = Response("none", "none")
  /\ leaves = leave_requests
  /\ attendance = attendance_records
  /\ itemWrites = {}
  /\ rowsRead = {}
  /\ calc = NoCalc
  /\ procs = NoProcs

\* the wall clock passes into the next month
Tick ==
  /\ MonthsSinceStart(now) < MaxTicks
  /\ now' = NextMonth(now.year, now.month)
  /\ response' = Response("tick", "none")
  /\ itemWrites' = {}
  /\ rowsRead' = {}
  /\ UNCHANGED <<cycles, items, comps, calc, procs, leaves, attendance>>

Apply(op, r) ==
  /\ cycles' = r.cycles
  /\ items' = r.items
  /\ response' = Response(op, r.code)
  /\ itemWrites' = r.writes
  /\ rowsRead' = r.reads
  /\ UNCHANGED <<now, comps, calc, procs, leaves, attendance>>

CreateCycle(t, p, body, fail) ==
  /\ Cardinality(DOMAIN cycles) < MaxCycles
  /\ Apply("create", CreateHandler(t, p.year, p.month, body, fail))

Submit(t, id) == Apply("submit", SubmitHandler(t, id))

Approve(t, id) == Apply("approve", ApproveHandler(t, id))

Reject(t, id) == Apply("reject", RejectHandler(t, id))

Process(t, id, edited) == Apply("process", ProcessHandler(t, id, edited))

GetPayrollCycles(t) == Apply("list", GetPayrollCyclesHandler(t))

GetPayslips(t, caller, fail) ==
  /\ Cardinality(DOMAIN GetPayslipsHandler(t, caller, fail).cycles) <= MaxCycles
  /\ Apply("payslips", GetPayslipsHandler(t, caller, fail))

GetPayslipPdf(t, caller, pid) == Apply("pdf", GetPayslipPdfHandler(t, caller, pid))

Next ==
  \/ Tick
  \/ \E t \in Tenants : \E p \in CreatePeriods(t), body \in CreateBodies :
       \E fail \in CreateFailures(t, p, now) : CreateCycle(t, p, body, fail)
  \/ \E t \in Tenants, id \in DOMAIN cycles : Submit(t, id)
  \/ \E t \in Tenants, id \in DOMAIN cycles : Approve(t, id)
  \/ \E t \in Tenants, id \in DOMAIN cycles : Reject(t, id)
  \/ \E t \in Tenants, id \in DOMAIN cycles, edited \in EditedBodies : Process(t, id, edited)
  \/ \E t \in Tenants : GetPayrollCycles(t)
  \/ \E t \in Tenants : \E caller \in Callers(t) :
       \E fail \in BackfillFailures(t, caller, now) : GetPayslips(t, caller, fail)
  \/ \E t \in Tenants : \E caller \in Callers(t),
                            pid \in {ItemId(i) : i \in items} \cup {NoItemId} :
       GetPayslipPdf(t, caller, pid)

Spec == Init /\ [][Next]_vars

(***************************************************************************)
(* POST /employees/:employeeId/compensation                                *)
(***************************************************************************)
\* request bodies: revisions effective within and after the months on hand,
\* and one without basic_salary
CompBodies ==
  { [employee |-> "e1", effective_from |-> Date(2024, 11, 20), ctc |-> 30000000,
     basic_salary |-> 1800000, hra |-> 600000, special_allowance |-> 0,
     da |-> 100000, lta |-> 0, bonus |-> 0],
    [employee |-> "e1", effective_from |-> Date(2025, 1, 5), ctc |-> 36000000,
     basic_salary |-> 2500000, hra |-> 500000, special_allowance |-> 0,
     da |-> 0, lta |-> 0, bonus |-> 0],
    [employee |-> "e2", effective_from |-> Date(2024, 12, 5), ctc |-> 24000000,
     basic_salary |-> 1000000, hra |-> 400000, special_allowance |-> 600000,
     da |-> 0, lta |-> 0, bonus |-> 0],
    [employee |-> "e2", effective_from |-> Date(2024, 12, 20), ctc |-> 24000000,
     basic_salary |-> 0, hra |-> 0, special_allowance |-> 0,
     da |-> 0, lta |-> 0, bonus |-> 0] }

CompRow(t, body) ==
  [tenant |-> t, employee |-> body.employee, effective_from |-> body.effective_from,
   ctc |-> body.ctc, basic_salary |-> body.basic_salary, hra |-> body.hra,
   special_allowance |-> body.special_allowance, da |-> body.da, lta |-> body.lta,
   bonus |-> body.bonus]

AddCompensationHandler(t, body, isAdmin) ==
  IF ~isAdmin THEN [code |-> "forbidden", comps |-> comps]
  ELSE IF body.ctc = 0 \/ body.basic_salary = 0
       THEN [code |-> "bad_request", comps |-> comps]
  ELSE [code |-> "created", comps |-> comps \cup {CompRow(t, body)}]

AddCompensation(t, body, isAdmin) ==
  /\ Cardinality(comps) < Cardinality(CompInit) + MaxComps
  /\ comps' = AddCompensationHandler(t, body, isAdmin).comps
  /\ response' = Response("compensation", AddCompensationHandler(t, body, isAdmin).code)
  /\ itemWrites' = {}
  /\ rowsRead' = {}
  /\ UNCHANGED <<now, cycles, items, calc, procs, leaves, attendance>>

\* the payroll requests of a tenant whose compensation records are revised
\* between the orchestrator runs
InitComp ==
  /\ now = [year |-> StartYear, month |-> StartMonth]
  /\ cycles = NoCycles
  /\ items = {}
  /\ comps = CompInit
  /\ response = Response("none", "none")
  /\ leaves = leave_requests
  /\ attendance = attendance_records
  /\ itemWrites = {}
  /\ rowsRead = {}
  /\ calc = NoCalc
  /\ procs = NoProcs

NextComp ==
  \/ Tick
  \/ \E body \in CompBodies, isAdmin \in BOOLEAN : AddCompensation("A", body, isAdmin)
  \/ \E p \in CreatePeriods("A"), body \in CreateBodies :
       \E fail \in CreateFailures("A", p, now) : CreateCycle("A", p, body, fail)
  \/ \E caller \in Callers("A") :
       \E fail \in BackfillFailures("A", caller, now) : GetPayslips("A", caller, fail)

CompSpec == InitComp /\ [][NextComp]_vars

(***************************************************************************)
(* The salary calculation on its own: a compensation record, the settings, *)
(* the days of the month and the LOP days are given, the calculation of    *)
(* the orchestrator loop is applied, and the LOP days are then raised a    *)
(* day at a time and the item is calculated again                          *)
(***************************************************************************)
CalcComps ==
  { [ctc |-> 28800000, basic_salary |-> 1500000, hra |-> 600000,
     special_allowance |-> 300000, da |-> 0, lta |-> 0, bonus |-> 0],
    [ctc |-> 24000000, basic_salary |-> 0, hra |-> 0,
     special_allowance |-> 0, da |-> 0, lta |-> 0, bonus |-> 0],
    [ctc |-> 20400000, basic_salary |-> 1000000, hra |-> 400000,
     special_allowance |-> 200000, da |-> 100000, lta |-> 0, bonus |-> 0],
    [ctc |-> 108000000, basic_salary |-> 5000000, hra |-> 2000000,
     special_allowance |-> 1000000, da |-> 500000, lta |-> 200000, bonus |-> 300000],
    [ctc |-> 0, basic_salary |-> 0, hra |-> 0,
     special_allowance |-> 0, da |-> 0, lta |-> 0, bonus |-> 0],
    \* a gross of 21000.00 and one of 21001.00
    [ctc |-> 25200000, basic_salary |-> 1200000, hra |-> 600000,
     special_allowance |-> 300000, da |-> 0, lta |-> 0, bonus |-> 0],
    [ctc |-> 25201200, basic_salary |-> 1200000, hra |-> 600000,
     special_allowance |-> 300100, da |-> 0, lta |-> 0, bonus |-> 0] }

\* the defaults, the row of tenant B, and rows of POST /payroll-settings
\* with another esi_rate and with a pt_rate of 0
CalcSettings ==
  {DefaultSettings} \cup {payroll_settings[t][1] : t \in {"B"}}
  \cup {[DefaultSettings EXCEPT !.esi_rate = 400], [DefaultSettings EXCEPT !.pt_rate = 0]}

\* the code paths that compute pay
CalcPaths == {"backfill", "create", "process", "preview"}

CalcDays == 28..31

\* the calculation of the orchestrator loop for one employee
CalcItem(c, settings, totalWorkingDays, lopDays) ==
  ComputeItem("A", FailedId, "e1", Components(c, settings, TRUE),
              LopAndPaidDays(totalWorkingDays, lopDays), settings)

\* the calculation of POST /payroll-cycles/:cycleId/process and of GET
\* /payroll-cycles/:cycleId/preview: the components are taken as stored
CalcItemAsStored(c, settings, totalWorkingDays, lopDays) ==
  ComputeItem("A", FailedId, "e1", Components(c, settings, FALSE),
              LopAndPaidDays(totalWorkingDays, lopDays), settings)

CalcItemOn(path, c, settings, totalWorkingDays, lopDays) ==
  IF path \in {"backfill", "create"}
  THEN CalcItem(c, settings, totalWorkingDays, lopDays)
  ELSE CalcItemAsStored(c, settings, totalWorkingDays, lopDays)

\* what a path stores for the employee: <<>> when it stores no item.  The
\* backfill skips a gross of zero; process reaches its fresh calculation only
\* for an approved cycle and skips the INSERT for a locked status; the
\* preview stores nothing
StoredItem(path, c, settings, totalWorkingDays, lopDays) ==
  IF path = "backfill"
  THEN IF Components(c, settings, TRUE).gross = 0 THEN <<>>
       ELSE <<CalcItem(c, settings, totalWorkingDays, lopDays)>>
  ELSE IF path = "create"
  THEN <<CalcItem(c, settings, totalWorkingDays, lopDays)>>
  ELSE IF path = "process"
  THEN IF LockedStatus("approved") THEN <<>>
       ELSE <<CalcItemAsStored(c, settings, totalWorkingDays, lopDays)>>
  ELSE <<>>

InitCalc ==
  /\ now = [year |-> StartYear, month |-> StartMonth]
  /\ cycles = NoCycles
  /\ items = {}
  /\ comps = InitComps
  /\ response = Response("none", "none")
  /\ leaves = leave_requests
  /\ attendance = attendance_records
  /\ itemWrites = {}
  /\ rowsRead = {}
  /\ procs = NoProcs
  /\ calc \in [path : CalcPaths, c : CalcComps, settings : CalcSettings,
               totalWorkingDays : CalcDays, lopDays : 0..MaxLop, item : {<<>>}]

Calculate ==
  /\ calc.item = <<>>
  /\ calc' = [calc EXCEPT !.item = <<CalcItemOn(calc.path, calc.c, calc.settings,
                                                 calc.totalWorkingDays, calc.lopDays)>>]
  /\ UNCHANGED <<now, cycles, items, comps, response, itemWrites, rowsRead, procs, leaves, attendance>>

MoreLop ==
  /\ calc.item # <<>>
  /\ calc.lopDays < MaxLop
  /\ calc' = [calc EXCEPT !.lopDays = calc.lopDays + 1,
                          !.item = <<CalcItemOn(calc.path, calc.c, calc.settings,
                                                calc.totalWorkingDays,
                                                calc.lopDays + 1)>>]
  /\ UNCHANGED <<now, cycles, items, comps, response, itemWrites, rowsRead, procs, leaves, attendance>>

NextCalc == Calculate \/ MoreLop

CalcSpec == InitCalc /\ [][NextCalc]_vars

(***************************************************************************)
(* Concurrent transition requests on one cycle.  Each request runs its     *)
(* queries in order (SELECT of the cycle, COUNT of the items for submit,   *)
(* UPDATE of the status); the queries of different requests interleave.    *)
(***************************************************************************)
RaceId == <<"A", 2024, 12, 0>>

RaceOps == {"submit", "approve", "reject"}

\* the status a transition writes
TargetStatus(op) ==
  IF op = "submit" THEN "pending_approval"
  ELSE IF op = "approve" THEN "approved" ELSE "draft"

\* the status check of a transition on the row it has read
TransitionAllowed(op, status) ==
  IF op = "submit" THEN SubmitAllowed(status)
  ELSE IF op = "approve" THEN ApproveAllowed(status) ELSE RejectAllowed(status)

RaceItem ==
  ComputeItem("A", RaceId, "e1",
              Components(CHOOSE c \in InitComps : c.employee = "e1", DefaultSettings, TRUE),
              LopAndPaidDays(31, 0), DefaultSettings)

\* the cycle the requests are sent for, and its items
RaceStarts ==
  {[status |-> "draft", items |-> {}],
   [status |-> "draft", items |-> {RaceItem}],
   [status |-> "pending_approval", items |-> {RaceItem}],
   [status |-> "approved", items |-> {RaceItem}],
   [status |-> "processing", items |-> {RaceItem}],
   [status |-> "completed", items |-> {RaceItem}],
   [status |-> "completed", items |-> {}],
   [status |-> "failed", items |-> {}]}

Request(op) == [op |-> op, pc |-> "select", code |-> "none"]

InitRace ==
  /\ now = [year |-> StartYear, month |-> StartMonth]
  /\ \E st \in RaceStarts :
       /\ cycles = InsertCycle(NoCycles, RaceId,
                               [NewCycle("A", 2024, 12, Cardinality(st.items),
                                         SumGross(st.items))
                                  EXCEPT !.status = st.status])
       /\ items = st.items
       /\ procs \in [start : {st.status}, reqs : [1..MaxProcs -> {Request(op) : op \in RaceOps}]]
  /\ comps = InitComps
  /\ response = Response("none", "none")
  /\ leaves = leave_requests
  /\ attendance = attendance_records
  /\ itemWrites = {}
  /\ rowsRead = {}
  /\ calc = NoCalc

\* SELECT * FROM payroll_cycles WHERE id = $1 AND tenant_id = $2, and the
\* check of the status read
SelectCycle(p) ==
  /\ procs.reqs[p].pc = "select"
  /\ procs' = [procs EXCEPT !.reqs[p] =
       IF CycleRows(cycles, RaceId, "A") = {}
       THEN [@ EXCEPT !.pc = "done", !.code = "not_found"]
       ELSE IF ~TransitionAllowed(@.op, cycles[RaceId].status)
            THEN [@ EXCEPT !.pc = "done", !.code = "illegal_transition"]
       ELSE IF @.op = "submit" THEN [@ EXCEPT !.pc = "count"]
       ELSE [@ EXCEPT !.pc = "update"]]
  /\ UNCHANGED <<now, cycles, items, comps, response, itemWrites, rowsRead, calc,
               leaves, attendance>>

\* submit: SELECT COUNT(*) FROM payroll_items of the cycle
CountItemsOfCycle(p) ==
  /\ procs.reqs[p].pc = "count"
  /\ procs' = [procs EXCEPT !.reqs[p] =
       IF NoItems(Cardinality(ItemsOf(items, "A", RaceId)))
       THEN [@ EXCEPT !.pc = "done", !.code = "no_items"]
       ELSE [@ EXCEPT !.pc = "update"]]
  /\ UNCHANGED <<now, cycles, items, comps, response, itemWrites, rowsRead, calc,
               leaves, attendance>>

\* UPDATE payroll_cycles SET status = ... WHERE id = $n AND tenant_id = $m
UpdateStatus(p) ==
  /\ procs.reqs[p].pc = "update"
  /\ cycles' = [cycles EXCEPT ![RaceId].status = TargetStatus(procs.reqs[p].op)]
  /\ procs' = [procs EXCEPT !.reqs[p] = [@ EXCEPT !.pc = "done", !.code = "ok"]]
  /\ response' = Response(procs.reqs[p].op, "ok")
  /\ UNCHANGED <<now, items, comps, itemWrites, rowsRead, calc,
               leaves, attendance>>

NextRace ==
  \E p \in 1..MaxProcs : SelectCycle(p) \/ CountItemsOfCycle(p) \/ UpdateStatus(p)

RaceSpec == InitRace /\ [][NextRace]_vars

(***************************************************************************)
(* The same requests on a cycle of the month before the current one, with  *)
(* the age-out UPDATE of GET /payroll-cycles and GET /payslips running     *)
(* between their queries.                                                  *)
(***************************************************************************)
\* the cycle of 12/2024 as the requests find it in 01/2025
SweepRaceStarts ==
  {[status |-> "draft", items |-> {RaceItem}],
   [status |-> "pending_approval", items |-> {RaceItem}],
   [status |-> "approved", items |-> {RaceItem}],
   [status |-> "completed", items |-> {RaceItem}]}

InitSweepRace ==
  /\ now = NextMonth(StartYear, StartMonth)
  /\ \E st \in SweepRaceStarts :
       /\ cycles = InsertCycle(NoCycles, RaceId,
                               [NewCycle("A", 2024, 12, Cardinality(st.items),
                                         SumGross(st.items))
                                  EXCEPT !.status = st.status])
       /\ items = st.items
       /\ procs \in [start : {st.status}, reqs : [1..MaxProcs -> {Request(op) : op \in RaceOps}]]
  /\ comps = InitComps
  /\ response = Response("none", "none")
  /\ leaves = leave_requests
  /\ attendance = attendance_records
  /\ itemWrites = {}
  /\ rowsRead = {}
  /\ calc = NoCalc

\* UPDATE payroll_cycles SET status = 'completed' of the cycles of past months
SweepUpdate ==
  /\ cycles' = Sweep(cycles, "A", now)
  /\ response' = Response("list", "ok")
  /\ UNCHANGED <<now, items, comps, itemWrites, rowsRead, calc, procs,
               leaves, attendance>>

NextSweepRace ==
  \/ \E p \in 1..MaxProcs : SelectCycle(p) \/ CountItemsOfCycle(p) \/ UpdateStatus(p)
  \/ SweepUpdate

SweepRaceSpec == InitSweepRace /\ [][NextSweepRace]_vars

(***************************************************************************)
(* Concurrent backfill passes over one cycle: two GET /payslips requests   *)
(* of tenant A in 01/2025 working on the cycle of 12/2024, their queries   *)
(* interleaved with each other and with POST /compensation.                *)
(***************************************************************************)
\* the items of the cycle when the passes start
BackfillRaceStarts == {{}, {RaceItem}}

\* a pass before its first query on the cycle
Pass ==
  [pc |-> "read", processedCount |-> 0, totalGross |-> 0,
   employeesWithItems |-> {}, todo |-> {}]

InitBackfillRace ==
  /\ now = NextMonth(StartYear, StartMonth)
  /\ \E its \in BackfillRaceStarts :
       /\ cycles = InsertCycle(NoCycles, RaceId, NewCycle("A", 2024, 12, 0, 0))
       /\ items = its
  /\ procs = [reqs |-> [p \in 1..MaxProcs |-> Pass]]
  /\ comps = CompInit
  /\ response = Response("none", "none")
  /\ leaves = leave_requests
  /\ attendance = attendance_records
  /\ itemWrites = {}
  /\ rowsRead = {}
  /\ calc = NoCalc

\* SELECT id FROM employees ... and SELECT employee_id, gross_salary FROM
\* payroll_items of the cycle
ReadExisting(p) ==
  /\ procs.reqs[p].pc = "read"
  /\ LET existing == ItemsOf(items, "A", RaceId)
     IN procs' = [procs EXCEPT !.reqs[p] =
          [pc |-> "loop",
           processedCount |-> Cardinality(existing),
           totalGross |-> SumGross(existing),
           employeesWithItems |-> EmployeesWithItems(existing),
           todo |-> EligibleEmployees("A", 2024, 12)]]
  /\ UNCHANGED <<now, cycles, items, comps, response, itemWrites, rowsRead, calc,
               leaves, attendance>>

\* one iteration of the employee loop: skip, or compensation lookup,
\* calculation and upsert of the item
ProcessEmployee(p, e) ==
  /\ procs.reqs[p].pc = "loop"
  /\ e \in procs.reqs[p].todo
  /\ LET comp == ResolveComp(comps, "A", e, MonthEnd(2024, 12))
         k == Components(comp[1], SettingsOf("A"), TRUE)
         row == ComputeItem("A", RaceId, e, k,
                            calculateLopAndPaidDays("A", e, 12, 2024), SettingsOf("A"))
         skip == \/ e \in procs.reqs[p].employeesWithItems
                 \/ comp = <<>>
                 \/ k.gross = 0
     IN /\ items' = IF skip THEN items ELSE UpsertItem(items, row)
        /\ procs' = [procs EXCEPT !.reqs[p] =
             [@ EXCEPT !.todo = @ \ {e},
                       !.processedCount = IF skip THEN @ ELSE @ + 1,
                       !.totalGross = IF skip THEN @ ELSE @ + row.gross_salary]]
  /\ UNCHANGED <<now, cycles, comps, response, itemWrites, rowsRead, calc,
               leaves, attendance>>

\* UPDATE payroll_cycles SET status = 'completed', total_employees, total_amount
UpdateTotals(p) ==
  /\ procs.reqs[p].pc = "loop"
  /\ procs.reqs[p].todo = {}
  /\ cycles' = [cycles EXCEPT ![RaceId].status = "completed",
                              ![RaceId].total_employees = procs.reqs[p].processedCount,
                              ![RaceId].total_amount = procs.reqs[p].totalGross]
  /\ procs' = [procs EXCEPT !.reqs[p].pc = "done"]
  /\ response' = Response("payslips", "ok")
  /\ UNCHANGED <<now, items, comps, itemWrites, rowsRead, calc, leaves, attendance>>

NextBackfillRace ==
  \/ \E p \in 1..MaxProcs : ReadExisting(p)
  \/ \E p \in 1..MaxProcs, e \in EmpsOf("A") : ProcessEmployee(p, e)
  \/ \E p \in 1..MaxProcs : UpdateTotals(p)
  \/ \E body \in CompBodies : AddCompensation("A", body, TRUE)

BackfillRaceSpec == InitBackfillRace /\ [][NextBackfillRace]_vars

(***************************************************************************)
(* calculateLopAndPaidDays on its own: the leave_requests rows are those   *)
(* the leave routes write (POST /leave-requests computes days from the two *)
(* dates, PATCH .../status approves), the attendance_records rows those of *)
(* POST /attendance; the function is applied to an employee and a month    *)
(***************************************************************************)
RECURSIVE DaysBefore(_, _)
DaysBefore(y, m) ==
  IF y < StartYear \/ (y = StartYear /\ m <= 1) THEN 0
  ELSE LET py == IF m = 1 THEN y - 1 ELSE y
           pm == IF m = 1 THEN 12 ELSE m - 1
       IN DaysBefore(py, pm) + DaysInMonth(py, pm)

\* the day of a date, counted from the first day of StartYear
DayNumber(d) == DaysBefore(d.year, d.month) + d.day

\* daysDiff = Math.ceil((end - start) / (1000 * 60 * 60 * 24)) + 1
LeaveDays(startDate, endDate) == DayNumber(endDate) - DayNumber(startDate) + 1

\* request bodies: within December 2024, into it, out of it, across it, with
\* the end date before the start date, and a leave of another type
LeaveBodies ==
  { [leaveType |-> "loss_of_pay", startDate |-> Date(2024, 12, 3), endDate |-> Date(2024, 12, 8)],
    [leaveType |-> "loss_of_pay", startDate |-> Date(2024, 11, 28), endDate |-> Date(2024, 12, 3)],
    [leaveType |-> "loss_of_pay", startDate |-> Date(2024, 12, 8), endDate |-> Date(2025, 1, 2)],
    [leaveType |-> "loss_of_pay", startDate |-> Date(2024, 11, 28), endDate |-> Date(2025, 1, 2)],
    [leaveType |-> "loss_of_pay", startDate |-> Date(2024, 12, 8), endDate |-> Date(2024, 12, 3)],
    [leaveType |-> "sick", startDate |-> Date(2024, 12, 3), endDate |-> Date(2024, 12, 8)] }

\* 'pending' on insertion, 'approved' after PATCH /leave-requests/:id/status
LeaveStatuses == {"pending", "approved"}

\* the row inserted by POST /leave-requests, in the given status
LeaveRow(id, body, status) ==
  [id |-> id, tenant |-> "A", employee |-> "e1", leave_type |-> body.leaveType,
   status |-> status, start_date |-> body.startDate, end_date |-> body.endDate,
   days |-> LeaveDays(body.startDate, body.endDate)]

LeaveTables ==
  UNION {{{LeaveRow(k, f[k][1], f[k][2]) : k \in 1..n} :
            f \in [1..n -> LeaveBodies \X LeaveStatuses]} : n \in 0..MaxLeaves}

\* rows of POST /attendance, one per (tenant, employee, attendance_date)
AttendanceRows ==
  { [tenant |-> "A", employee |-> "e1", attendance_date |-> Date(2024, 12, 3),
     is_lop |-> TRUE],
    [tenant |-> "A", employee |-> "e1", attendance_date |-> Date(2024, 12, 8),
     is_lop |-> TRUE],
    [tenant |-> "A", employee |-> "e1", attendance_date |-> Date(2024, 12, 9),
     is_lop |-> FALSE] }

LopEmployees == {"e1", "e2"}

LopPeriods == {AddMonths(FirstPeriod, k) : k \in 0..2}

InitLeave ==
  /\ now = [year |-> StartYear, month |-> StartMonth]
  /\ cycles = NoCycles
  /\ items = {}
  /\ comps = InitComps
  /\ response = Response("lop", "none")
  /\ itemWrites = {}
  /\ rowsRead = {}
  /\ procs = NoProcs
  /\ calc = NoCalc
  /\ leaves \in LeaveTables
  /\ attendance \in SUBSET AttendanceRows

\* a call of calculateLopAndPaidDays(tenantId, employeeId, month, year)
CalculateLop(e, p) ==
  /\ calc' = [employee |-> e, year |-> p.year, month |-> p.month,
              result |-> calculateLopAndPaidDays("A", e, p.month, p.year)]
  /\ UNCHANGED <<now, cycles, items, comps, response, itemWrites, rowsRead, procs,
                 leaves, attendance>>

NextLeave == \E e \in LopEmployees, p \in LopPeriods : CalculateLop(e, p)

LeaveSpec == InitLeave /\ [][NextLeave]_vars

(***************************************************************************)
(* POST /payroll-cycles with any month number in the body: the requests of *)
(* tenant A in December 2024 for the months 0 to 13 of the current year    *)
(* and for the months 0 to 13 of the next year                             *)
(***************************************************************************)
RequestMonths == 0..13

RequestPeriods ==
  {[year |-> y, month |-> m] : y \in {StartYear, StartYear + 1}, m \in RequestMonths}
  \ {[year |-> StartYear + 1, month |-> m] : m \in 2..11}

InitPeriod ==
  /\ now = [year |-> StartYear, month |-> StartMonth]
  /\ cycles = NoCycles
  /\ items = {}
  /\ comps = InitComps
  /\ response = Response("none", "none")
  /\ leaves = leave_requests
  /\ attendance = attendance_records
  /\ itemWrites = {}
  /\ rowsRead = {}
  /\ calc = NoCalc
  /\ procs = NoProcs

NextPeriod ==
  \E p \in RequestPeriods, body \in CreateBodies : CreateCycle("A", p, body, NoFail)

PeriodSpec == InitPeriod /\ [][NextPeriod]_vars

(***************************************************************************)
(* The approval workflow within one month: the requests of tenant A while  *)
(* the clock stays in December 2024.  Every request that is sent is        *)
(* handled, and the client keeps sending the requests of the workflow: a   *)
(* step that can be taken again and again is eventually taken.             *)
(***************************************************************************)
WorkflowId == <<"A", StartYear, StartMonth, 0>>

NextWorkflow ==
  \/ \E p \in CreatePeriods("A"), body \in CreateBodies :
       \E fail \in CreateFailures("A", p, now) : CreateCycle("A", p, body, fail)
  \/ \E id \in DOMAIN cycles : Submit("A", id)
  \/ \E id \in DOMAIN cycles : Approve("A", id)
  \/ \E id \in DOMAIN cycles : Reject("A", id)
  \/ \E id \in DOMAIN cycles, edited \in EditedBodies : Process("A", id, edited)
  \/ GetPayrollCycles("A")
  \/ \E caller \in Callers("A") :
       \E fail \in BackfillFailures("A", caller, now) : GetPayslips("A", caller, fail)

\* the tables a request leaves hold an item of the cycle of the current month
\* and the cycle is still in draft
Produces(r) ==
  /\ WorkflowId \in DOMAIN r.cycles
  /\ r.cycles[WorkflowId].status = "draft"
  /\ ItemsOf(r.items, "A", WorkflowId) # {}

\* some request of the workflow, sent now, would store the first payroll item
\* of the cycle of the current month while that cycle is in draft
ProduceItemsEnabled ==
  /\ WorkflowId \in DOMAIN cycles
  /\ cycles[WorkflowId].status = "draft"
  /\ ItemsOf(items, "A", WorkflowId) = {}
  /\ \/ \E p \in CreatePeriods("A"), body \in CreateBodies :
          \E fail \in CreateFailures("A", p, now) :
            /\ Cardinality(DOMAIN cycles) < MaxCycles
            /\ Produces(CreateHandler("A", p.year, p.month, body, fail))
     \/ \E id \in DOMAIN cycles : Produces(SubmitHandler("A", id))
     \/ \E id \in DOMAIN cycles : Produces(ApproveHandler("A", id))
     \/ \E id \in DOMAIN cycles : Produces(RejectHandler("A", id))
     \/ \E id \in DOMAIN cycles, edited \in EditedBodies :
          Produces(ProcessHandler("A", id, edited))
     \/ Produces(GetPayrollCyclesHandler("A"))
     \/ \E caller \in Callers("A") :
          \E fail \in BackfillFailures("A", caller, now) :
            /\ Cardinality(DOMAIN GetPayslipsHandler("A", caller, fail).cycles)
                 <= MaxCycles
            /\ Produces(GetPayslipsHandler("A", caller, fail))

\* the step of such a request
ProduceItems ==
  /\ WorkflowId \in DOMAIN cycles
  /\ cycles[WorkflowId].status = "draft"
  /\ ItemsOf(items, "A", WorkflowId) = {}
  /\ cycles'[WorkflowId].status = "draft"
  /\ ItemsOf(items', "A", WorkflowId) # {}

\* a request of the workflow on the cycle of the current month that succeeds
Transition(op) ==
  /\ WorkflowId \in DOMAIN cycles
  /\ \/ op = "submit" /\ Submit("A", WorkflowId)
     \/ op = "approve" /\ Approve("A", WorkflowId)
     \/ op = "process" /\ \E edited \in EditedBodies : Process("A", WorkflowId, edited)
  /\ response'.code = "ok"

\* strong fairness of the item-producing step (its enabling condition written
\* out as ProduceItemsEnabled) and of the three transitions
WorkflowSpec ==
  /\ Init
  /\ [][NextWorkflow]_vars
  /\ ([]<>ProduceItemsEnabled => []<><<ProduceItems>>_vars)
  /\ SF_vars(Transition("submit"))
  /\ SF_vars(Transition("approve"))
  /\ SF_vars(Transition("process"))

(***************************************************************************)
(* The month loop of the backfill on its own, one iteration per step.  The *)
(* earliest date_of_joining and the current month are given; an iteration  *)
(* ends in one of the branches of the loop body.  The request keeps        *)
(* running until the loop is left.                                         *)
(***************************************************************************)
MaxVisits == 6

\* MIN(date_of_joining): none, in a past month, in the current month, later
LoopJoinDates ==
  {<<>>, <<Date(2024, 9, 15)>>, <<Date(2024, 11, 30)>>, <<Date(2024, 12, 10)>>,
   <<Date(2025, 1, 1)>>, <<Date(2025, 3, 3)>>}

LoopNows == {[year |-> 2024, month |-> 12], [year |-> 2025, month |-> 1]}

\* the branch an iteration ends in: the employee loop and the final UPDATE
\* ran, the cycle INSERT / SELECT threw, the SELECT found no row, a query of
\* the employee loop threw
LoopOutcomes == {"processed", "ensure_failed", "no_row", "process_failed"}

\* variant: the catch branch of the cycle INSERT does not advance iter
IterAfterStuck(outcome, y, m) ==
  IF outcome = "ensure_failed" THEN [year |-> y, month |-> m] ELSE NextMonth(y, m)

\* iter.setMonth(iter.getMonth() + 1), at the end of every branch
IterAfter(outcome, y, m) == NextMonth(y, m)

InitLoop ==
  /\ now \in LoopNows
  /\ cycles = NoCycles
  /\ items = {}
  /\ comps = InitComps
  /\ response = Response("none", "none")
  /\ leaves = leave_requests
  /\ attendance = attendance_records
  /\ itemWrites = {}
  /\ rowsRead = {}
  /\ procs = NoProcs
  /\ calc \in [pc : {"start"}, earliest : LoopJoinDates, iter : {<<>>}, visited : {<<>>}]

\* if (earliestJoin.rows[0]?.date_of_joining): iter = first day of that month
StartLoop ==
  /\ calc.pc = "start"
  /\ calc' = IF calc.earliest = <<>> THEN [calc EXCEPT !.pc = "done"]
             ELSE [calc EXCEPT !.pc = "loop",
                               !.iter = <<[year |-> calc.earliest[1].year,
                                           month |-> calc.earliest[1].month]>>]
  /\ UNCHANGED <<now, cycles, items, comps, response, itemWrites, rowsRead, procs,
                 leaves, attendance>>

\* y > lastYear || (y === lastYear && m > lastMonth)
PastLastMonth(it, n) ==
  LET lastMonth == IF n.month = 1 THEN 12 ELSE n.month - 1
      lastYear == IF n.month = 1 THEN n.year - 1 ELSE n.year
  IN it.year > lastYear \/ (it.year = lastYear /\ it.month > lastMonth)

\* one pass through the loop body
Iterate(outcome) ==
  /\ calc.pc = "loop"
  /\ Len(calc.visited) < MaxVisits
  /\ ~PastLastMonth(calc.iter[1], now)
  /\ LET y == calc.iter[1].year
         m == calc.iter[1].month
     IN calc' = IF y = now.year /\ m = now.month
                THEN [calc EXCEPT !.iter = <<NextMonth(y, m)>>]
                ELSE [calc EXCEPT !.iter = <<IterAfter(outcome, y, m)>>,
                                  !.visited = Append(@, [year |-> y, month |-> m,
                                                         outcome |-> outcome])]
  /\ UNCHANGED <<now, cycles, items, comps, response, itemWrites, rowsRead, procs,
                 leaves, attendance>>

\* break
LeaveLoop ==
  /\ calc.pc = "loop"
  /\ PastLastMonth(calc.iter[1], now)
  /\ calc' = [calc EXCEPT !.pc = "done"]
  /\ UNCHANGED <<now, cycles, items, comps, response, itemWrites, rowsRead, procs,
                 leaves, attendance>>

NextLoop ==
  \/ StartLoop
  \/ \E outcome \in LoopOutcomes : Iterate(outcome)
  \/ LeaveLoop

LoopSpec == InitLoop /\ [][NextLoop]_vars /\ WF_vars(NextLoop)

(***************************************************************************)
(* Properties                                                              *)
(***************************************************************************)
TransitionTable ==
  { <<"draft", "pending_approval">>, <<"pending_approval", "approved">>,
    <<"pending_approval", "draft">>, <<"approved", "processing">>,
    <<"draft", "completed">>, <<"pending_approval", "completed">>,
    <<"approved", "completed">>, <<"processing", "completed">> }

C2_ProcessRequiresApproved ==
  [][\A t \in Tenants, id \in DOMAIN cycles, edited \in EditedBodies :
       (Process(t, id, edited) /\ cycles[id].tenant = t
          /\ cycles[id].status # "approved")
       => (response'.code = "illegal_transition" /\ cycles' = cycles /\ items' = items)]_vars

C2_Witness ==
  /\ response = Response("process", "illegal_transition")
  /\ \E id \in DOMAIN cycles : cycles[id].status \in {"draft", "pending_approval", "failed"}

\* C3: submit succeeds, and yields pending_approval, exactly on a draft cycle
\* with at least one payroll item; otherwise it fails and changes no cycle
C3_SubmitNeedsDraftAndItems ==
  [][\A t \in Tenants, id \in DOMAIN cycles :
       (Submit(t, id) /\ cycles[id].tenant = t)
       => IF cycles[id].status = "draft" /\ ItemsOf(items, t, id) # {}
          THEN response'.code = "ok" /\ cycles'[id].status = "pending_approval"
          ELSE response'.code # "ok" /\ cycles' = cycles]_vars

C3_Witness ==
  /\ response = Response("submit", "ok")
  /\ \E id \in DOMAIN cycles :
       cycles[id].status = "pending_approval" /\ ItemsOf(items, cycles[id].tenant, id) # {}

\* C4: approve and reject succeed exactly on a pending_approval cycle (approve
\* yields approved, reject yields draft); otherwise they fail and change no cycle
C4_ApproveRejectNeedPending ==
  [][\A t \in Tenants, id \in DOMAIN cycles :
       cycles[id].tenant = t
       => /\ Approve(t, id)
             => IF cycles[id].status = "pending_approval"
                THEN response'.code = "ok" /\ cycles'[id].status = "approved"
                ELSE response'.code # "ok" /\ cycles' = cycles
          /\ Reject(t, id)
             => IF cycles[id].status = "pending_approval"
                THEN response'.code = "ok" /\ cycles'[id].status = "draft"
                ELSE response'.code # "ok" /\ cycles' = cycles]_vars

C4_Witness ==
  /\ response = Response("approve", "ok")
  /\ \E id \in DOMAIN cycles : cycles[id].status = "approved"

\* C5: no payroll item is written while its cycle is approved, processing or
\* completed
C5_NoWriteWhenLocked == itemWrites \cap {"approved", "processing", "completed"} = {}

\* C6: a successful process on an approved cycle sets the status to processing
\* and leaves the payroll items as they were, with or without edited items in
\* the request body
C6_ProcessKeepsItems ==
  [][\A t \in Tenants, id \in DOMAIN cycles, edited \in EditedBodies :
       (Process(t, id, edited) /\ cycles[id].tenant = t
          /\ cycles[id].status = "approved" /\ response'.code = "ok")
       => (cycles'[id].status = "processing" /\ items' = items)]_vars

C6_Witness ==
  /\ response = Response("process", "ok")
  /\ \E id \in DOMAIN cycles :
       cycles[id].status = "processing" /\ ItemsOf(items, cycles[id].tenant, id) # {}

\* C7: with requests handled one at a time, a completed cycle stays completed
C7_CompletedTerminal ==
  [][\A id \in DOMAIN cycles :
       cycles[id].status = "completed"
       => id \in DOMAIN cycles' /\ cycles'[id].status = "completed"]_vars

C7_Witness ==
  /\ response.op \in {"submit", "approve", "reject", "process"}
  /\ response.code = "illegal_transition"
  /\ DOMAIN cycles # {}
  /\ \A id \in DOMAIN cycles : cycles[id].status = "completed"

TenantRequest(t) ==
  \/ \E p \in CreatePeriods(t), body \in CreateBodies :
       \E fail \in CreateFailures(t, p, now) : CreateCycle(t, p, body, fail)
  \/ \E id \in DOMAIN cycles : Submit(t, id) \/ Approve(t, id) \/ Reject(t, id)
  \/ \E id \in DOMAIN cycles, edited \in EditedBodies : Process(t, id, edited)
  \/ GetPayrollCycles(t)
  \/ \E caller \in Callers(t) :
       \E fail \in BackfillFailures(t, caller, now) : GetPayslips(t, caller, fail)
  \/ \E caller \in Callers(t), pid \in {ItemId(i) : i \in items} \cup {NoItemId} :
       GetPayslipPdf(t, caller, pid)

\* C9: a request of one tenant reads no payroll row of another tenant and
\* leaves the other tenants' cycles and payroll items as they were
C9_TenantIsolation ==
  [][\A t \in Tenants :
       TenantRequest(t)
       => /\ rowsRead' \subseteq {t}
          /\ \A id \in DOMAIN cycles :
               cycles[id].tenant # t => id \in DOMAIN cycles' /\ cycles'[id] = cycles[id]
          /\ {i \in items' : i.tenant # t} = {i \in items : i.tenant # t}]_vars

C11_BackfillIdempotent ==
  [][\A t \in Tenants : \A caller \in Callers(t) \ {NoEmp} :
       GetPayslips(t, caller, NoFail)
       => /\ GetPayslipsOn(cycles', items', t, caller, NoFail).items = items'
          /\ GetPayslipsOn(cycles', items', t, caller, NoFail).cycles = cycles']_vars

C11_Witness ==
  /\ response = Response("payslips", "ok")
  /\ \E id \in DOMAIN cycles :
       /\ cycles[id].status = "completed"
       /\ Cardinality(ItemsOf(items, cycles[id].tenant, id)) = 2
       /\ cycles[id].total_employees = 2

\* the records of an employee that qualify for a month: effective on or before
\* the month end
Qualifying(t, e, y, m) ==
  {c \in comps : c.tenant = t /\ c.employee = e /\ DateLE(c.effective_from, MonthEnd(y, m))}

\* the qualifying records with the greatest effective_from
Latest(t, e, y, m) ==
  {c \in Qualifying(t, e, y, m) :
     \A d \in Qualifying(t, e, y, m) : DateLE(d.effective_from, c.effective_from)}

\* the item of (cycle id, employee e) computed from compensation record c
ItemFrom(t, id, e, y, m, c) ==
  ComputeItem(t, id, e, Components(c, SettingsOf(t), TRUE),
              calculateLopAndPaidDays(t, e, m, y), SettingsOf(t))

\* C12: when a compensation record effective on or before the month end was
\* added for an employee while the cycle was in draft, the next orchestrator
\* run (the backfill pass over that month) leaves that employee's payroll item
\* computed from the new record, and leaves the other items of the cycle as
\* they were
C12_RerunReflectsNewComp ==
  [][\A caller \in Callers("A") \ {NoEmp} :
       GetPayslips("A", caller, NoFail)
       => \A id \in DOMAIN cycles :
            (cycles[id].status = "draft"
               /\ IsPast(cycles[id].year, cycles[id].month, now.year, now.month))
            => \A i \in ItemsOf(items, "A", id) :
                 LET fresh == {ItemFrom("A", id, i.employee, cycles[id].year,
                                        cycles[id].month, c) :
                                 c \in Latest("A", i.employee, cycles[id].year,
                                              cycles[id].month)}
                 IN /\ fresh \subseteq items'
                    /\ i \in fresh => i \in items']_vars

\* C18: every payroll item written by a run is computed from the employee's
\* record with the greatest effective_from on or before the month end (so a
\* record effective after the month end is never used, and an employee without
\* a qualifying record gets no item); a complete run still writes the item of
\* every other eligible employee
C18_CompensationResolution ==
  [][/\ \A i \in items' \ items :
          \E c \in Latest(i.tenant, i.employee, cycles'[i.cycle].year, cycles'[i.cycle].month) :
            i = ItemFrom(i.tenant, i.cycle, i.employee, cycles'[i.cycle].year,
                         cycles'[i.cycle].month, c)
     /\ \A caller \in Callers("A") \ {NoEmp} :
          GetPayslips("A", caller, NoFail)
          => \A id \in DOMAIN cycles' :
               IsPast(cycles'[id].year, cycles'[id].month, now.year, now.month)
               => \A e \in EligibleEmployees("A", cycles'[id].year, cycles'[id].month) :
                    (\E c \in Latest("A", e, cycles'[id].year, cycles'[id].month) :
                       Components(c, SettingsOf("A"), TRUE).gross # 0)
                    => \E i \in ItemsOf(items', "A", id) : i.employee = e]_vars

\* a run over December 2024 in which e2 had no qualifying record and e1 had
\* a record effective after the month end beside the one that was used
C18_Witness ==
  /\ response = Response("payslips", "ok")
  /\ \E c \in comps : c.employee = "e1" /\ c.effective_from = Date(2025, 1, 5)
  /\ \E id \in DOMAIN cycles :
       /\ cycles[id].month = 12
       /\ EligibleEmployees("A", 2024, 12) = {"e1", "e2"}
       /\ {i.employee : i \in ItemsOf(items, "A", id)} = {"e1"}

\* C13: no payroll item exists for an employee whose status is not active or
\* whose date_of_joining is after the month end of the item's cycle
C13_OnlyEligible ==
  \A i \in items :
    /\ Employees[i.employee].status = "active"
    /\ DateLE(Employees[i.employee].date_of_joining,
              MonthEnd(cycles[i.cycle].year, cycles[i.cycle].month))

\* a complete run over November 2024, when e2 had not joined and e4 was inactive
C13_Witness ==
  /\ response.code = "ok"
  /\ \E id \in DOMAIN cycles :
       /\ cycles[id].tenant = "A" /\ cycles[id].month = 11
       /\ cycles[id].status = "completed"
       /\ {i.employee : i \in ItemsOf(items, "A", id)} = {"e1"}
       /\ Employees["e2"].tenant = "A" /\ Employees["e4"].tenant = "A"

\* the totals of a cycle agree with its stored items
TotalsMatch(cs, its, id) ==
  /\ cs[id].total_employees = Cardinality(ItemsOf(its, cs[id].tenant, id))
  /\ cs[id].total_amount = SumGross(ItemsOf(its, cs[id].tenant, id))

\* C14: after an orchestrator pass that runs to completion (a backfill pass
\* over the past months, a creation for a past month, a process), the
\* total_employees of each cycle it went over is the number of the cycle's
\* payroll items and the total_amount is the sum of their gross_salary
C14_TotalsMatchItems ==
  [][\A t \in Tenants :
       /\ \A caller \in Callers(t) \ {NoEmp} :
            (GetPayslips(t, caller, NoFail) /\ EarliestJoin(t) # <<>>)
            => \A id \in DOMAIN cycles' :
                 (/\ cycles'[id].tenant = t
                  /\ IsPast(cycles'[id].year, cycles'[id].month, now.year, now.month)
                  /\ ~IsPast(cycles'[id].year, cycles'[id].month,
                             EarliestJoin(t)[1].year, EarliestJoin(t)[1].month))
                 => TotalsMatch(cycles', items', id)
       /\ \A p \in CreatePeriods(t), body \in CreateBodies :
            (CreateCycle(t, p, body, NoFail) /\ response'.code = "ok"
               /\ IsPast(p.year, p.month, now.year, now.month))
            => \A id \in DOMAIN cycles' \ DOMAIN cycles : TotalsMatch(cycles', items', id)
       /\ \A id \in DOMAIN cycles, edited \in EditedBodies :
            (Process(t, id, edited) /\ cycles[id].tenant = t /\ response'.code = "ok")
            => TotalsMatch(cycles', items', id)]_vars

\* a process that replaced the totals sent with the creation request by the
\* totals of the one item stored
C14_Witness ==
  /\ response = Response("process", "ok")
  /\ \E id \in DOMAIN cycles :
       /\ cycles[id].status = "processing"
       /\ cycles[id].total_employees = 1
       /\ Cardinality(ItemsOf(items, cycles[id].tenant, id)) = 1
       /\ \A body \in CreateBodies : body.employeeCount # 1

\* C15: every payroll item has deductions = pf + esi + pt + tds and
\* net_salary = gross_salary - deductions
C15_NetConservation ==
  calc.item # <<>>
  => /\ calc.item[1].deductions = calc.item[1].pf_deduction + calc.item[1].esi_deduction
                                  + calc.item[1].pt_deduction + calc.item[1].tds_deduction
     /\ calc.item[1].net_salary = calc.item[1].gross_salary - calc.item[1].deductions

\* an item with all four deductions at work and LOP days
C15_Witness ==
  /\ calc.item # <<>>
  /\ calc.item[1].pf_deduction > 0 /\ calc.item[1].esi_deduction > 0
  /\ calc.item[1].pt_deduction > 0 /\ calc.item[1].tds_deduction > 0
  /\ calc.item[1].lop_days > 0

\* C16: every payroll item's gross_salary is its basic_salary + hra +
\* special_allowance plus the da, lta and bonus of the compensation record
\* scaled by paidDays / totalWorkingDays
C16_GrossConservation ==
  calc.item # <<>>
  => calc.item[1].gross_salary
       = calc.item[1].basic_salary + calc.item[1].hra + calc.item[1].special_allowance
         + ((calc.c.da + calc.c.lta + calc.c.bonus) * calc.item[1].paid_days)
             \div calc.item[1].total_working_days

\* C17: with the compensation and the days of the month fixed, one more LOP
\* day never raises the adjusted gross, and the adjusted gross is 0 once the
\* LOP days reach the days of the month
C17_LopMonotone ==
  /\ [](calc # NoCalc /\ calc.item # <<>> /\ calc.lopDays >= calc.totalWorkingDays
        => calc.item[1].gross_salary = 0)
  /\ [][MoreLop => calc'.item[1].gross_salary <= calc.item[1].gross_salary]_vars

\* the adjusted gross went down with an added LOP day, and reached 0 with the
\* LOP days beyond the days of the month
C17_Witness ==
  /\ calc # NoCalc /\ calc.item # <<>>
  /\ calc.lopDays > calc.totalWorkingDays
  /\ calc.item[1].gross_salary = 0
  /\ calc.item[1].paid_days = 0
  /\ Components(calc.c, calc.settings, TRUE).gross > 0

\* the employees an orchestrator run over the month has an item to write for
Payable(t, y, m) ==
  {e \in EligibleEmployees(t, y, m) :
     \E c \in Latest(t, e, y, m) : Components(c, SettingsOf(t), TRUE).gross # 0}

\* the payable employees without an item of the cycle
Unpaid(cs, its, id) ==
  {e \in Payable(cs[id].tenant, cs[id].year, cs[id].month) :
     \A i \in ItemsOf(its, cs[id].tenant, id) : i.employee # e}

\* C19: when a query fails for one employee during an orchestrator run, only
\* that employee is left without a payroll item and the cycle totals are
\* still written
C19_FailureIsolation ==
  [][\A t \in Tenants :
       /\ \A caller \in Callers(t) \ {NoEmp} :
            \A fail \in BackfillFailures(t, caller, now) :
              (fail.stage = "process" /\ GetPayslips(t, caller, fail))
              => \A id \in KeyRows(cycles', t, fail.year, fail.month) :
                   /\ Cardinality(Unpaid(cycles', items', id)) <= 1
                   /\ TotalsMatch(cycles', items', id)
       /\ \A p \in CreatePeriods(t), body \in CreateBodies :
            \A fail \in CreateFailures(t, p, now) :
              (fail.stage = "process" /\ CreateCycle(t, p, body, fail))
              => \A id \in DOMAIN cycles' \ DOMAIN cycles :
                   /\ Cardinality(Unpaid(cycles', items', id)) <= 1
                   /\ TotalsMatch(cycles', items', id)]_vars

\* C20: a backfill run that is cut short after some of its upserts, and then
\* run again to completion with the inputs unchanged, ends with the payroll
\* items and cycle rows (status, total_employees, total_amount) of a single
\* uninterrupted run
C20_AbortRetryConverges ==
  [][\A t \in Tenants : \A caller \in Callers(t) \ {NoEmp} :
       \A fail \in BackfillFailures(t, caller, now) :
         (fail.stage # "none" /\ GetPayslips(t, caller, fail))
         => /\ GetPayslipsOn(cycles', items', t, caller, NoFail).items
                 = GetPayslipsOn(cycles, items, t, caller, NoFail).items
            /\ GetPayslipsOn(cycles', items', t, caller, NoFail).cycles
                 = GetPayslipsOn(cycles, items, t, caller, NoFail).cycles]_vars

\* a run over December 2024 cut short after the first of two upserts: the
\* cycle is still in draft, one item is stored, the totals are not written
C20_Witness ==
  /\ response.op = "payslips"
  /\ \E id \in DOMAIN cycles :
       /\ cycles[id].status = "draft" /\ cycles[id].month = 12
       /\ cycles[id].total_employees = 0
       /\ Cardinality(ItemsOf(items, cycles[id].tenant, id)) = 1
       /\ Cardinality(Payable(cycles[id].tenant, cycles[id].year, cycles[id].month)) = 2

\* one transition request handled on its own, on a cycle with the given status
SerialStep(st, op, hasItems) ==
  IF ~TransitionAllowed(op, st.status) THEN [status |-> st.status, codes |-> st.codes \o <<"illegal_transition">>]
  ELSE IF op = "submit" /\ ~hasItems THEN [status |-> st.status, codes |-> st.codes \o <<"no_items">>]
  ELSE [status |-> TargetStatus(op), codes |-> st.codes \o <<"ok">>]

\* the requests handled one after the other in the given order
RECURSIVE Serial(_, _, _, _)
Serial(st, order, k, hasItems) ==
  IF k > Len(order) THEN st
  ELSE Serial(SerialStep(st, procs.reqs[order[k]].op, hasItems), order, k + 1, hasItems)

Orders == {o \in [1..MaxProcs -> 1..MaxProcs] : \A i, j \in 1..MaxProcs : o[i] = o[j] => i = j}

AllDone == procs # NoProcs /\ \A p \in 1..MaxProcs : procs.reqs[p].pc = "done"

\* C21: however the queries of concurrent transition requests on one cycle
\* interleave, the final status and the responses are those of the requests
\* handled one after the other in some order (so of an approve and a reject
\* on a pending_approval cycle, or of two submits on a draft cycle, at most
\* one succeeds)
C21_AtomicTransitions ==
  AllDone
  => \E o \in Orders :
       LET r == Serial([status |-> procs.start, codes |-> <<>>], o, 1, items # {})
       IN /\ cycles[RaceId].status = r.status
          /\ \A k \in 1..MaxProcs : procs.reqs[o[k]].code = r.codes[k]

\* the calendar months from (y, m) up to and including (ly, lm)
RECURSIVE MonthsFrom(_, _, _, _)
MonthsFrom(y, m, ly, lm) ==
  IF y > ly \/ (y = ly /\ m > lm) THEN {}
  ELSE {[year |-> y, month |-> m]}
       \cup MonthsFrom(NextMonth(y, m).year, NextMonth(y, m).month, ly, lm)

\* a cycle of tenant t exists in cs for every month from the earliest
\* date_of_joining among the employees S up to the month before n
Covered(cs, t, S, n) ==
  \A d \in {Employees[e].date_of_joining : e \in S} :
    \A p \in MonthsFrom(d.year, d.month,
                        IF n.month = 1 THEN n.year - 1 ELSE n.year,
                        IF n.month = 1 THEN 12 ELSE n.month - 1) :
      KeyRows(cs, t, p.year, p.month) # {}

\* the step adds no cycle and no item for the current or a later month
NothingFromCurrentMonthOn ==
  /\ \A id \in DOMAIN cycles' \ DOMAIN cycles :
       IsPast(cycles'[id].year, cycles'[id].month, now.year, now.month)
  /\ \A i \in items' \ items :
       IsPast(cycles'[i.cycle].year, cycles'[i.cycle].month, now.year, now.month)

C23_BackfillKeepsExistingItems ==
  [][(\E caller \in Callers("A") :
        \E fail \in BackfillFailures("A", caller, now) : GetPayslips("A", caller, fail))
     => /\ items \subseteq items'
        /\ \A i \in items' \ items :
             /\ i.employee \in EligibleEmployees(i.tenant, cycles'[i.cycle].year,
                                                  cycles'[i.cycle].month)
             /\ ~\E j \in items : j.cycle = i.cycle /\ j.employee = i.employee]_vars

\* a pass has written items while an older item, computed before the
\* employee's compensation was revised, is still in place
C23_Witness ==
  /\ response = Response("payslips", "ok")
  /\ itemWrites # {}
  /\ \E i \in items :
       /\ Latest(i.tenant, i.employee, cycles[i.cycle].year, cycles[i.cycle].month) # {}
       /\ \A c \in Latest(i.tenant, i.employee, cycles[i.cycle].year, cycles[i.cycle].month) :
            i # ItemFrom(i.tenant, i.cycle, i.employee, cycles[i.cycle].year,
                         cycles[i.cycle].month, c)

\* C24: a request that runs the age-out sweep and nothing else on the status
\* (GET /payroll-cycles, and GET /payslips of a caller without an employee
\* row) changes a status only to completed, only of a cycle of the requesting
\* tenant whose month is strictly before the current one, and only from
\* draft, pending_approval, approved or processing; and no GET /payslips
\* request, with or without the backfill, changes the status of a cycle of
\* the current or a later month or of another tenant
C24_SweepOnlyPastOpenCycles ==
  [][\A t \in Tenants :
       /\ (GetPayrollCycles(t) \/ GetPayslips(t, NoEmp, NoFail))
          => \A id \in DOMAIN cycles :
               cycles'[id].status # cycles[id].status
               => /\ cycles'[id].status = "completed"
                  /\ cycles[id].tenant = t
                  /\ IsPast(cycles[id].year, cycles[id].month, now.year, now.month)
                  /\ cycles[id].status \in
                       {"draft", "pending_approval", "approved", "processing"}
       /\ \A caller \in Callers(t) : \A fail \in BackfillFailures(t, caller, now) :
            GetPayslips(t, caller, fail)
            => \A id \in DOMAIN cycles :
                 (cycles[id].tenant # t
                    \/ ~IsPast(cycles[id].year, cycles[id].month, now.year, now.month))
                 => cycles'[id].status = cycles[id].status]_vars

\* the sweep of a listing has completed a past cycle that has no items, and
\* a draft cycle of the current month is still in draft
C24_Witness ==
  /\ response = Response("list", "ok")
  /\ \E id \in DOMAIN cycles :
       /\ IsPast(cycles[id].year, cycles[id].month, now.year, now.month)
       /\ cycles[id].status = "completed"
       /\ ItemsOf(items, cycles[id].tenant, id) = {}
  /\ \E id \in DOMAIN cycles :
       /\ ~IsPast(cycles[id].year, cycles[id].month, now.year, now.month)
       /\ cycles[id].status = "draft"

\* the effect of a creation request on a key that has a cycle: it fails and
\* leaves every cycle row and every item as it was
CreateConflict ==
  /\ response'.code = "conflict"
  /\ cycles' = cycles
  /\ items' = items

\* the effect of a creation request on a free key: one cycle row is added
\* for the key, with a status in the given set, the other rows are unchanged
CreatedWith(t, p, statuses) ==
  \E id \in DOMAIN cycles' \ DOMAIN cycles :
    /\ DOMAIN cycles' = DOMAIN cycles \cup {id}
    /\ cycles'[id].tenant = t
    /\ cycles'[id].year = p.year /\ cycles'[id].month = p.month
    /\ cycles'[id].status \in statuses
    /\ \A j \in DOMAIN cycles : cycles'[j] = cycles[j]

\* C25 as stated: a creation for a key that has a cycle fails and leaves the
\* existing cycle (status, totals) and its items unchanged; a creation for a
\* free key yields a cycle whose status is draft
C25_CreateDraftOrConflict ==
  [][\A t \in Tenants : \A p \in CreatePeriods(t), body \in CreateBodies :
       \A fail \in CreateFailures(t, p, now) :
         CreateCycle(t, p, body, fail)
         => IF KeyRows(cycles, t, p.year, p.month) # {} THEN CreateConflict
            ELSE CreatedWith(t, p, {"draft"})]_vars

\* C25 amended: the same for a key that has a cycle; a creation for a free
\* key of the current or a later month yields a cycle in draft, and one for
\* a past month yields a cycle that is completed when the request succeeds
\* and in draft when its processing fails
C25_CreateDraftCompletedOrConflict ==
  [][\A t \in Tenants : \A p \in CreatePeriods(t), body \in CreateBodies :
       \A fail \in CreateFailures(t, p, now) :
         CreateCycle(t, p, body, fail)
         => IF KeyRows(cycles, t, p.year, p.month) # {} THEN CreateConflict
            ELSE IF IsPast(p.year, p.month, now.year, now.month) /\ response'.code = "ok"
                 THEN CreatedWith(t, p, {"completed"})
                 ELSE CreatedWith(t, p, {"draft"})]_vars

\* a creation was refused for the month of a completed cycle that has items
C25_Witness ==
  /\ response = Response("create", "conflict")
  /\ \E id \in DOMAIN cycles :
       /\ cycles[id].status = "completed"
       /\ ItemsOf(items, cycles[id].tenant, id) # {}

\* the sum of the days of a set of leave requests
RECURSIVE TotalDays(_)
TotalDays(S) ==
  IF S = {} THEN 0
  ELSE LET x == CHOOSE r \in S : TRUE IN x.days + TotalDays(S \ {x})

\* the approved loss_of_pay requests of the employee the function was called for
ApprovedLop == {r \in leaves : /\ r.tenant = "A" /\ r.employee = calc.employee
                               /\ r.status = "approved"
                               /\ r.leave_type = "loss_of_pay"}

\* the is_lop attendance rows of that employee dated in the month of the call
LopAttendance == {a \in attendance : /\ a.tenant = "A" /\ a.employee = calc.employee
                                     /\ a.is_lop
                                     /\ a.attendance_date.year = calc.year
                                     /\ a.attendance_date.month = calc.month}

\* C26: calculateLopAndPaidDays returns lopDays = the sum of the days of the
\* counted approved loss_of_pay requests + the number of is_lop attendance
\* rows dated in the month, nothing deduplicated, and paidDays = max(0,
\* totalWorkingDays - lopDays), so that 0 <= paidDays <= totalWorkingDays;
\* without leave and attendance rows lopDays = 0 and paidDays = totalWorkingDays
C26_LopAndPaidDays ==
  calc # NoCalc
  => LET r == calc.result
         twd == DaysInMonth(calc.year, calc.month)
         counted == {x \in ApprovedLop :
                       LeaveCounted(x, "A", calc.employee, calc.year, calc.month)}
     IN /\ r.totalWorkingDays = twd
        /\ r.lopDays = TotalDays(counted) + Cardinality(LopAttendance)
        /\ r.paidDays = Max(0, twd - r.lopDays)
        /\ 0 <= r.paidDays /\ r.paidDays <= twd
        /\ ({x \in leaves : x.employee = calc.employee} = {}
              /\ {a \in attendance : a.employee = calc.employee} = {})
           => (r.lopDays = 0 /\ r.paidDays = twd)

\* C27: when every leave request has start_date <= end_date, the leave part
\* of lopDays is the sum of the days of exactly the approved loss_of_pay
\* requests whose interval meets the month (start_date <= month end and
\* end_date >= first of the month); a request that is not approved or not
\* of type loss_of_pay adds nothing
C27_LeaveCountedIffIntersects ==
  (calc # NoCalc /\ \A x \in leaves : DateLE(x.start_date, x.end_date))
  => calc.result.lopDays - Cardinality(LopAttendance)
       = TotalDays({x \in ApprovedLop :
                      /\ DateLE(x.start_date, MonthEnd(calc.year, calc.month))
                      /\ DateLE(Date(calc.year, calc.month, 1), x.end_date)})

\* December 2024 with an approved loss-of-pay leave from 28 November to
\* 2 January, which neither starts nor ends in the month, next to a request
\* that is pending or of another type
C27_Witness ==
  /\ calc # NoCalc
  /\ calc.employee = "e1" /\ calc.year = 2024 /\ calc.month = 12
  /\ \A x \in leaves : DateLE(x.start_date, x.end_date)
  /\ \E x \in leaves :
       /\ x.status = "approved" /\ x.leave_type = "loss_of_pay"
       /\ x.start_date = Date(2024, 11, 28) /\ x.end_date = Date(2025, 1, 2)
       /\ calc.result.lopDays = x.days + Cardinality(LopAttendance)
  /\ \E x \in leaves : x.status = "pending" \/ x.leave_type = "sick"

\* C28: the esi_deduction of every computed item is 0.75 % of its adjusted
\* gross when that is at most 21000.00 and 0 above (157.50 at 21000.00, 0 at
\* 21001.00), whatever settings.esi_rate is
C28_EsiBoundary ==
  calc.item # <<>>
  => LET it == calc.item[1]
     IN /\ it.gross_salary <= 2100000 => it.esi_deduction * 10000 <= it.gross_salary * 75
        /\ it.gross_salary <= 2100000 => it.esi_deduction * 10000 > it.gross_salary * 75 - 10000
        /\ it.gross_salary > 2100000 => it.esi_deduction = 0
        /\ it.gross_salary = 2100000 => it.esi_deduction = 15750
        /\ it.gross_salary = 2100100 => it.esi_deduction = 0

\* an item with a gross of exactly 21000.00 computed under an esi_rate that
\* is not the default
C28_Witness ==
  /\ calc.item # <<>>
  /\ calc.item[1].gross_salary = 2100000
  /\ calc.item[1].esi_deduction = 15750
  /\ calc.settings.esi_rate # DefaultSettings.esi_rate

\* C29: the pt_deduction of every computed item equals settings.pt_rate,
\* for every non-negative pt_rate and whatever the paid days are
C29_PtFlat ==
  calc.item # <<>> => calc.item[1].pt_deduction = calc.settings.pt_rate

\* the components the fallback derives from the annual ctc
Derived(c, settings) ==
  [basic |-> ((c.ctc \div 12) * Pct(settings, "basic_salary_percentage", 40)) \div 100,
   hra |-> ((c.ctc \div 12) * Pct(settings, "hra_percentage", 40)) \div 100,
   sa |-> ((c.ctc \div 12) * Pct(settings, "special_allowance_percentage", 20)) \div 100]

\* C30: on every path that computes pay, an item computed from a record
\* whose basic, hra, special allowance, da, lta and bonus are all zero and
\* whose ctc is positive has basic, hra and special allowance derived from
\* ctc / 12 by the percentage split of the settings (scaled by the paid
\* days), and a gross that is their sum
C30_CtcFallbackOnEveryPath ==
  (/\ calc.item # <<>>
   /\ calc.c.ctc > 0
   /\ calc.c.basic_salary + calc.c.hra + calc.c.special_allowance
        + calc.c.da + calc.c.lta + calc.c.bonus = 0)
  => LET it == calc.item[1]
         k == Derived(calc.c, calc.settings)
     IN /\ it.basic_salary = (k.basic * it.paid_days) \div it.total_working_days
        /\ it.hra = (k.hra * it.paid_days) \div it.total_working_days
        /\ it.special_allowance = (k.sa * it.paid_days) \div it.total_working_days
        /\ it.gross_salary
             = ((k.basic + k.hra + k.sa) * it.paid_days) \div it.total_working_days

\* C31: a creation request whose month is outside 1..12 is rejected and
\* creates no cycle and no payroll item
C31_InvalidPeriodRejected ==
  [][\A p \in RequestPeriods, body \in CreateBodies :
       (CreateCycle("A", p, body, NoFail) /\ p.month \notin 1..12)
       => /\ response'.code # "ok"
          /\ cycles' = cycles
          /\ items' = items]_vars

\* the status of the cycle of the current month, "none" before its creation
WorkflowStatus ==
  IF WorkflowId \in DOMAIN cycles THEN cycles[WorkflowId].status ELSE "none"

\* C32: a cycle created in draft for the current month, in a tenant with an
\* eligible employee that has a compensation record, gets its payroll items
\* while in draft and is then taken by submit, approve and process to
\* processing
C32_WorkflowReachable ==
  (WorkflowStatus = "draft"
     /\ \E e \in EligibleEmployees("A", StartYear, StartMonth) :
          ResolveComp(comps, "A", e, MonthEnd(StartYear, StartMonth)) # <<>>)
  ~> (WorkflowStatus = "processing")

\* C33: however the queries of concurrent requests on one cycle interleave,
\* a cycle that has reached completed is never seen with another status
\* afterwards (a transition that read the status before the sweep completed
\* the cycle does not move it back)
C33_CompletedIsFinal ==
  [][cycles[RaceId].status = "completed" => cycles'[RaceId].status = "completed"]_vars

\* every pass has run its final UPDATE
PassesDone == \A p \in 1..MaxProcs : procs.reqs[p].pc = "done"

\* C34: once two concurrent backfill passes over one cycle have finished,
\* the cycle has exactly one item for each employee processed, its
\* total_employees is the number of its items and its total_amount the sum
\* of their gross salaries
C34_ConcurrentBackfillTotals ==
  PassesDone
  => LET its == ItemsOf(items, "A", RaceId)
     IN /\ \A i, j \in its : i.employee = j.employee => i = j
        /\ cycles[RaceId].total_employees = Cardinality(its)
        /\ cycles[RaceId].total_amount = SumGross(its)

\* C35: for the same compensation record, settings, days of the month and LOP
\* days, the backfill, the creation for a past month and the fresh
\* calculation of process have the same outcome: all store no item, or all
\* store the same item
C35_PathEquivalence ==
  calc.item # <<>>
  => LET stored(path) == StoredItem(path, calc.c, calc.settings,
                                    calc.totalWorkingDays, calc.lopDays)
     IN /\ stored("backfill") = stored("create")
        /\ stored("create") = stored("process")

\* C36: the payslips GET /payslips returns to an employee are items of that
\* employee whose cycle is approved, processing or completed when the
\* request ends; an item of a draft, pending_approval or failed cycle is
\* never returned (the step is the request whose result h the tables show)
C36_PayslipsOfReleasedCycles ==
  [][response'.op = "payslips"
     => \A t \in Tenants : \A caller \in Callers(t) :
          \A fail \in BackfillFailures(t, caller, now) :
            LET h == GetPayslipsHandler(t, caller, fail)
            IN (cycles' = h.cycles /\ items' = h.items /\ rowsRead' = h.reads)
               => \A i \in h.payslips :
                    /\ i.employee = caller
                    /\ cycles'[i.cycle].status \in {"approved", "processing", "completed"}]_vars

\* the caller was given payslips while an item of theirs sits in a cycle that
\* is in draft
C36_Witness ==
  /\ response = Response("payslips", "ok")
  /\ rowsRead # {}
  /\ \E i \in items : /\ i.employee = "e1"
                       /\ cycles[i.cycle].status \in {"draft", "pending_approval", "failed"}

\* C37: with requests handled one at a time, every cycle in pending_approval,
\* approved or processing has at least one payroll item, and a cycle in
\* processing has total_employees > 0
C37_WorkflowCyclesHaveItems ==
  \A id \in DOMAIN cycles :
    cycles[id].status \in {"pending_approval", "approved", "processing"}
    => /\ {i \in items : i.cycle = id} # {}
       /\ cycles[id].status = "processing" => cycles[id].total_employees > 0

\* process has just moved a cycle to processing
C37_Witness ==
  /\ response = Response("process", "ok")
  /\ \E id \in DOMAIN cycles :
       cycles[id].status = "processing" /\ cycles[id].total_employees > 0

\* C38: submit, approve and reject change nothing but the status of their
\* cycle: its total_employees and total_amount, every payroll item and every
\* other cycle stay as they were
C38_TransitionFrame ==
  [][\A t \in Tenants, id \in DOMAIN cycles :
       (Submit(t, id) \/ Approve(t, id) \/ Reject(t, id))
       => /\ items' = items
          /\ DOMAIN cycles' = DOMAIN cycles
          /\ \A j \in DOMAIN cycles : j # id => cycles'[j] = cycles[j]
          /\ cycles'[id] = [cycles[id] EXCEPT !.status = cycles'[id].status]]_vars

\* a rejection has succeeded on a cycle with totals while another cycle exists
C38_Witness ==
  /\ response = Response("reject", "ok")
  /\ Cardinality(DOMAIN cycles) > 1
  /\ \E id \in DOMAIN cycles :
       /\ cycles[id].status = "draft"
       /\ cycles[id].total_employees > 0
       /\ {i \in items : i.cycle = id} # {}

\* the request runs over a month boundary
SpansBoundary(x) ==
  /\ DateLE(x.start_date, x.end_date)
  /\ <<x.start_date.year, x.start_date.month>> # <<x.end_date.year, x.end_date.month>>

\* C39: an approved loss_of_pay request that runs over a month boundary adds
\* its full days to the lopDays of every month its interval meets, not only
\* the days that fall inside the month
C39_SpanningLeaveCountsInFull ==
  calc # NoCalc
  => \A x \in ApprovedLop :
       (/\ SpansBoundary(x)
        /\ DateLE(x.start_date, MonthEnd(calc.year, calc.month))
        /\ DateLE(Date(calc.year, calc.month, 1), x.end_date))
       => calc.result.lopDays
            = x.days
              + TotalDays({y \in ApprovedLop \ {x} :
                             LeaveCounted(y, "A", calc.employee, calc.year, calc.month)})
              + Cardinality(LopAttendance)

\* January 2025 with an approved loss-of-pay leave from 28 November to
\* 2 January: two of its 36 days fall inside the month, 36 are counted
C39_Witness ==
  /\ calc # NoCalc
  /\ calc.employee = "e1" /\ calc.year = 2025 /\ calc.month = 1
  /\ \E x \in ApprovedLop :
       /\ x.start_date = Date(2024, 11, 28) /\ x.end_date = Date(2025, 1, 2)
       /\ x.days = 36
       /\ calc.result.lopDays >= 36

\* the months visited so far are consecutive, starting with the month of the
\* earliest date_of_joining (so no month is visited twice)
VisitedInOrder ==
  /\ Len(calc.visited) > 0
     => /\ calc.visited[1].year = calc.earliest[1].year
        /\ calc.visited[1].month = calc.earliest[1].month
  /\ \A k \in 1..(Len(calc.visited) - 1) :
       LET nx == NextMonth(calc.visited[k].year, calc.visited[k].month)
       IN calc.visited[k + 1].year = nx.year /\ calc.visited[k + 1].month = nx.month

\* the loop has been left after visiting exactly the months from the month
\* of the earliest date_of_joining to the month before the current one
LoopDone ==
  /\ calc.pc = "done"
  /\ LET lastMonth == IF now.month = 1 THEN 12 ELSE now.month - 1
         lastYear == IF now.month = 1 THEN now.year - 1 ELSE now.year
         expected == IF calc.earliest = <<>> THEN {}
                     ELSE MonthsFrom(calc.earliest[1].year, calc.earliest[1].month,
                                     lastYear, lastMonth)
     IN /\ {[year |-> calc.visited[k].year, month |-> calc.visited[k].month] :
              k \in 1..Len(calc.visited)} = expected
        /\ Len(calc.visited) = Cardinality(expected)

\* C40: the month loop of the backfill terminates for every earliest
\* date_of_joining, having visited each month from the earliest join month to
\* the month before the current one exactly once, one month further on every
\* iteration whatever branch it ends in, and no month when the earliest join
\* date is in the current month or later
C40_MonthLoopTerminates ==
  [](VisitedInOrder) /\ <>LoopDone

\* the loop was left after four months, with an iteration that failed
C40_Witness ==
  /\ calc.pc = "done"
  /\ Len(calc.visited) = 4
  /\ \E k \in 1..4 : calc.visited[k].outcome = "ensure_failed"
  /\ calc.visited[4].outcome = "no_row"

====
